---------------------------- MODULE Spec2Model ----------------------------
(***************************************************************************)
(* Path-addressed IPC of electron-path-ipc: the dispatcher IpcCore (hub    *)
(* IpcCoreMain, spokes IpcCoreRenderer), its listener and handler          *)
(* registries, its request/response correlation (invoke / handle) and the  *)
(* prefixed views PrefixedIpcCore.                                          *)
(*                                                                         *)
(* Strings are sequences of one-character strings, so that the separator    *)
(* handling of PrefixedIpcCore (replace, startsWith, slice, join) and the   *)
(* matching of path-to-regexp are computed and not assumed.                 *)
(***************************************************************************)
EXTENDS Integers, Sequences, FiniteSets, TLC

VARIABLES
  windows,       \* electron.BrowserWindow.getAllWindows(): the connected spokes
  eventList,     \* IpcCore.eventList, per endpoint: ordered Map name -> listeners
  events,        \* the EventEmitter IpcCore extends, per endpoint: name -> [fn, once]*
  handlerList,   \* IpcCore.handlerList, per endpoint: ordered Map name -> handler
  handlerEvent,  \* IpcCore.handlerEvent, per endpoint: name -> the wrapper of handle()
  invokes,       \* every invoke() made: its promise, its responseEvent listener, its timer
  net,           \* envelopes sent on the 'request' channel and not yet received
  tasks,         \* handler invocations whose asynchronous result is not yet there
  nextId,        \* stands for uuid.v4(): the next fresh reqId
  now,           \* the clock the deadline timers run on, in ticks
  last           \* what the last operation did (its result, what it invoked and emitted)

vars == <<windows, eventList, events, handlerList, handlerEvent, invokes, net,
          tasks, nextId, now, last>>

---------------------------------------------------------------------------
(* Strings *)

Sep == "/"

Last(s) == s[Len(s)]

Front(s) == SubSeq(s, 1, Len(s) - 1)

RECURSIVE StripLead(_)
StripLead(s) == IF s # <<>> /\ Head(s) = Sep THEN StripLead(Tail(s)) ELSE s

RECURSIVE StripTrail(_)
StripTrail(s) == IF s # <<>> /\ Last(s) = Sep THEN StripTrail(Front(s)) ELSE s

\* v.replace(/^\/+|\/+$/g, '')
Strip(s) == StripTrail(StripLead(s))

\* String.prototype.startsWith
StartsWith(s, p) == Len(p) <= Len(s) /\ SubSeq(s, 1, Len(p)) = p

\* String.prototype.slice(n)
Slice(s, n) == SubSeq(s, n + 1, Len(s))

RECURSIVE SplitAcc(_, _, _)
SplitAcc(s, cur, acc) ==
  IF s = <<>> THEN Append(acc, cur)
  ELSE IF Head(s) = Sep THEN SplitAcc(Tail(s), <<>>, Append(acc, cur))
  ELSE SplitAcc(Tail(s), Append(cur, Head(s)), acc)

\* the segments of a string between separators
Split(s) == SplitAcc(s, <<>>, <<>>)

---------------------------------------------------------------------------
(* path-to-regexp, for patterns whose segments are each a literal, a named  *)
(* parameter ":name" or an optional named parameter ":name?" (default       *)
(* options: the whole path is matched, one trailing delimiter is optional). *)

Token(seg) ==
  IF seg # <<>> /\ Head(seg) = ":"
  THEN IF Last(seg) = "?"
       THEN [kind |-> "opt", text |-> SubSeq(seg, 2, Len(seg) - 1)]
       ELSE [kind |-> "param", text |-> Tail(seg)]
  ELSE [kind |-> "lit", text |-> seg]

NoMatch == [ok |-> FALSE, params |-> {}]

RECURSIVE MatchSegs(_, _)
MatchSegs(ps, xs) ==
  IF ps = <<>> THEN [ok |-> xs = <<>>, params |-> {}]
  ELSE LET t == Token(Head(ps))
           take == IF xs # <<>> /\ Head(xs) # <<>>
                   THEN LET r == MatchSegs(Tail(ps), Tail(xs))
                        IN [ok |-> r.ok,
                            params |-> IF r.ok THEN r.params \cup {<<t.text, Head(xs)>>} ELSE {}]
                   ELSE NoMatch
       IN CASE t.kind = "lit" ->
                 IF xs # <<>> /\ Head(xs) = t.text
                 THEN MatchSegs(Tail(ps), Tail(xs)) ELSE NoMatch
            [] t.kind = "param" -> take
            [] t.kind = "opt" -> IF take.ok THEN take ELSE MatchSegs(Tail(ps), xs)

\* a match that gives an absent optional parameter the empty string
PathMatch_AbsentAsEmpty(pattern, path) ==
  LET segs == Split(pattern)
      body == MatchSegs(segs, Split(path))
      r == IF body.ok THEN body
           ELSE IF path # <<>> /\ Last(path) = Sep
                THEN MatchSegs(segs, Split(Front(path)))
                ELSE NoMatch
      opts == {Token(segs[i]).text : i \in {j \in 1..Len(segs) : Token(segs[j]).kind = "opt"}}
      absent == {o \in opts : ~\E pr \in r.params : pr[1] = o}
  IN [ok |-> r.ok,
      params |-> IF r.ok THEN r.params \cup {<<o, <<>>>> : o \in absent} ELSE {}]

\* match(pattern)(path): whether the path matches and the named parameters
\* (an absent optional parameter is left out of the mapping)
PathMatch(pattern, path) ==
  LET body == MatchSegs(Split(pattern), Split(path))
  IN IF body.ok THEN body
     ELSE IF path # <<>> /\ Last(path) = Sep
          THEN MatchSegs(Split(pattern), Split(Front(path)))
          ELSE NoMatch

\* pathToRegexp(pattern).test(path)
RegexpTest(pattern, path) == PathMatch(pattern, path).ok

---------------------------------------------------------------------------
(* Ordered maps (Map, and the EventEmitter's table of names): sequences of  *)
(* records with a name field, in insertion order.                           *)

Has(m, name) == \E i \in 1..Len(m) : m[i].name = name

Get(m, name) == m[CHOOSE i \in 1..Len(m) : m[i].name = name]

Del(m, name) == SelectSeq(m, LAMBDA r : r.name # name)

Names(m) == [i \in 1..Len(m) |-> m[i].name]

Range(s) == {s[i] : i \in 1..Len(s)}

\* the sequence s without its element at index i
RemoveAt(s, i) == SubSeq(s, 1, i - 1) \o SubSeq(s, i + 1, Len(s))

---------------------------------------------------------------------------
(* events.EventEmitter *)

\* EventEmitter.on / EventEmitter.once: append the listener under the name
Emitter_add(em, name, l) ==
  IF Has(em, name)
  THEN [i \in 1..Len(em) |->
          IF em[i].name = name
          THEN [name |-> name, listeners |-> Append(em[i].listeners, l)]
          ELSE em[i]]
  ELSE Append(em, [name |-> name, listeners |-> <<l>>])

\* EventEmitter.removeListener: the most recently added registration of fn
\* under the name goes; the name goes with its last listener
Emitter_removeListener(em, name, fn) ==
  IF ~Has(em, name) THEN em
  ELSE LET ls == Get(em, name).listeners
           hits == {i \in 1..Len(ls) : ls[i].fn = fn}
       IN IF hits = {} THEN em
          ELSE LET k == CHOOSE i \in hits : \A j \in hits : j <= i
                   rest == RemoveAt(ls, k)
               IN IF rest = <<>> THEN Del(em, name)
                  ELSE [i \in 1..Len(em) |->
                          IF em[i].name = name
                          THEN [name |-> name, listeners |-> rest]
                          ELSE em[i]]

\* EventEmitter.removeAllListeners(name)
Emitter_removeAllListeners(em, name) == Del(em, name)

\* a canonical array index: decimal digits without a leading zero
Digits == <<"0", "1", "2", "3", "4", "5", "6", "7", "8", "9">>

IsArrayIndex(name) ==
  /\ name # <<>>
  /\ \A i \in 1..Len(name) : name[i] \in Range(Digits)
  /\ Len(name) > 1 => name[1] # "0"

RECURSIVE IndexValue(_)
IndexValue(name) ==
  IF name = <<>> THEN 0
  ELSE 10 * IndexValue(Front(name))
         + (CHOOSE d \in 0..9 : Digits[d + 1] = Last(name))

\* the index keys in ascending numeric order
RECURSIVE Ascending(_)
Ascending(keys) ==
  IF keys = <<>> THEN <<>>
  ELSE LET k == CHOOSE i \in 1..Len(keys) :
                  \A j \in 1..Len(keys) : IndexValue(keys[i]) <= IndexValue(keys[j])
       IN <<keys[k]>> \o Ascending(RemoveAt(keys, k))

\* Reflect.ownKeys of the emitter's table of names (an ordinary object): the
\* keys that are array indices first, in ascending numeric order, then the
\* other names in the order of their creation
OwnKeys(em) ==
  Ascending(SelectSeq(Names(em), IsArrayIndex))
    \o SelectSeq(Names(em), LAMBDA n : ~IsArrayIndex(n))

\* EventEmitter.eventNames
Emitter_eventNames(em) == OwnKeys(em)

\* the listeners ls without the first of them that equals l
DropFirst(ls, l) ==
  LET hits == {i \in 1..Len(ls) : ls[i] = l}
  IN IF hits = {} THEN ls
     ELSE RemoveAt(ls, CHOOSE i \in hits : \A j \in hits : i <= j)

\* the table m with the listeners of the name replaced by rest; the name goes
\* with its last listener
SetListeners(m, name, rest) ==
  IF rest = <<>> THEN Del(m, name)
  ELSE [i \in 1..Len(m) |->
          IF m[i].name = name THEN [name |-> name, listeners |-> rest] ELSE m[i]]

---------------------------------------------------------------------------
(* IpcCore: the registries of one dispatcher, as the record                 *)
(* [eventList, events, handlerList, handlerEvent]                           *)

EmptyReg == [eventList |-> <<>>, events |-> <<>>,
             handlerList |-> <<>>, handlerEvent |-> <<>>]

\* a listener is the function fn as it was given to on(), or the wrapper
\* that EventEmitter.once makes of it (once |-> TRUE)
Plain(fn) == [fn |-> fn, once |-> FALSE]

OnceWrap(fn) == [fn |-> fn, once |-> TRUE]

\* IpcCore.on(path, l): the listener goes to the end of the pattern's list in
\* eventList and in the emitter
Core_on(R, path, l) ==
  [R EXCEPT
     !.eventList =
        IF Has(R.eventList, path)
        THEN [i \in 1..Len(R.eventList) |->
                IF R.eventList[i].name = path
                THEN [name |-> path, listeners |-> Append(R.eventList[i].listeners, l)]
                ELSE R.eventList[i]]
        ELSE Append(R.eventList, [name |-> path, listeners |-> <<l>>]),
     !.events = Emitter_add(R.events, path, l)]

\* IpcCore.once(path, fn): EventEmitter.once registers the wrapper with
\* this.on, which is IpcCore.on
Core_once(R, path, fn) == Core_on(R, path, OnceWrap(fn))

\* the wrapper of once() is invoked: it takes itself out with
\* this.removeListener, which is IpcCore.removeListener, before it calls fn
Core_wrapperFired(R, path, fn) ==
  [R EXCEPT
     !.eventList =
        IF ~Has(R.eventList, path) THEN R.eventList
        ELSE SetListeners(R.eventList, path,
                          DropFirst(Get(R.eventList, path).listeners, OnceWrap(fn))),
     !.events =
        IF ~Has(R.events, path) THEN R.events
        ELSE SetListeners(R.events, path,
                          DropFirst(Get(R.events, path).listeners, OnceWrap(fn)))]

\* a removeListener that leaves the emitter as it is
Core_removeListener_ListOnly(R, path, fn) ==
  [R EXCEPT
     !.eventList =
        IF ~Has(R.eventList, path) THEN R.eventList
        ELSE LET rest == SelectSeq(Get(R.eventList, path).listeners, LAMBDA l : l # Plain(fn))
             IN IF Len(rest) <= 0 THEN Del(R.eventList, path)
                ELSE [i \in 1..Len(R.eventList) |->
                        IF R.eventList[i].name = path
                        THEN [name |-> path, listeners |-> rest]
                        ELSE R.eventList[i]]]

Core_removeListener(R, path, fn) ==
  [R EXCEPT
     !.eventList =
        IF ~Has(R.eventList, path) THEN R.eventList
        ELSE LET rest == SelectSeq(Get(R.eventList, path).listeners, LAMBDA l : l # Plain(fn))
             IN IF Len(rest) <= 0 THEN Del(R.eventList, path)
                ELSE [i \in 1..Len(R.eventList) |->
                        IF R.eventList[i].name = path
                        THEN [name |-> path, listeners |-> rest]
                        ELSE R.eventList[i]],
     !.events = Emitter_removeListener(R.events, path, fn)]

\* removeAllListeners(path?): the empty string is falsy, as is no argument
Core_removeAllListeners(R, path) ==
  IF path # <<>>
  THEN [R EXCEPT !.eventList = Del(R.eventList, path),
                 !.events = Emitter_removeAllListeners(R.events, path)]
  ELSE [R EXCEPT !.eventList = <<>>, !.events = <<>>]

Core_eventNames(R) == Emitter_eventNames(R.events)

\* handle(path, listener) when it does not throw
Core_handle(R, path, fn, once) ==
  [R EXCEPT
     !.handlerList = Append(R.handlerList, [name |-> path, fn |-> fn, once |-> once]),
     !.handlerEvent = Emitter_add(R.handlerEvent, path, [fn |-> fn, once |-> once])]

\* a handle() that forgot the guard
Core_handleThrows_Never(R, path) == FALSE

\* the guard of handle(): a second handler for the name throws
Core_handleThrows(R, path) == Has(R.handlerList, path)

Core_handlerNames(R) == Emitter_eventNames(R.handlerEvent)

Core_removeHandler(R, path) ==
  IF path # <<>>
  THEN [R EXCEPT !.handlerList = Del(R.handlerList, path),
                 !.handlerEvent = Emitter_removeAllListeners(R.handlerEvent, path)]
  ELSE [R EXCEPT !.handlerList = <<>>, !.handlerEvent = <<>>]

Core_removeAll(R) == Core_removeHandler(Core_removeAllListeners(R, <<>>), <<>>)

---------------------------------------------------------------------------
(* PrefixedIpcCore.  A view is the sequence of the prefixPath fields from   *)
(* the outermost view to the view itself (each stripped by the constructor); *)
(* the empty sequence is the root dispatcher.  Every operation of a view     *)
(* calls its parent, which is the view without its last element.             *)

\* new PrefixedIpcCore(parent, prefixPath)
Prefixed_new(view, prefix) == Append(view, Strip(prefix))

\* a join that puts the parts together as they are
Prefixed_join_Unstripped(prefixPath, path) ==
  IF prefixPath # <<>> THEN prefixPath \o <<Sep>> \o path ELSE path

\* PrefixedIpcCore.join(path)
Prefixed_join(prefixPath, path) ==
  IF prefixPath # <<>>
  THEN Strip(prefixPath) \o <<Sep>> \o Strip(path)
  ELSE Strip(path)

\* where a registry operation ended: err is "" unless it threw
Done(R) == [reg |-> R, err |-> ""]

Thrown(R, e) == [reg |-> R, err |-> e]

RECURSIVE Ipc_on(_, _, _, _)
Ipc_on(R, view, path, fn) ==
  IF view = <<>> THEN Core_on(R, path, Plain(fn))
  ELSE Ipc_on(R, Front(view), Prefixed_join(Last(view), path), fn)

RECURSIVE Ipc_once(_, _, _, _)
Ipc_once(R, view, path, fn) ==
  IF view = <<>> THEN Core_once(R, path, fn)
  ELSE Ipc_once(R, Front(view), Prefixed_join(Last(view), path), fn)

RECURSIVE Ipc_removeListener(_, _, _, _)
Ipc_removeListener(R, view, path, fn) ==
  IF view = <<>> THEN Core_removeListener(R, path, fn)
  ELSE Ipc_removeListener(R, Front(view), Prefixed_join(Last(view), path), fn)

\* an enumeration that cuts the prefix off and leaves the separator
Prefixed_names_Unstripped(parentNames, prefixPath) ==
  LET under == SelectSeq(parentNames, LAMBDA n : StartsWith(n, prefixPath))
  IN [i \in 1..Len(under) |-> Slice(under[i], Len(prefixPath))]

\* the names a view lists, from the names its parent lists
Prefixed_names(parentNames, prefixPath) ==
  LET under == SelectSeq(parentNames, LAMBDA n : StartsWith(n, prefixPath))
  IN [i \in 1..Len(under) |-> Strip(Slice(under[i], Len(prefixPath)))]

RECURSIVE Ipc_eventNames(_, _)
Ipc_eventNames(R, view) ==
  IF view = <<>> THEN Core_eventNames(R)
  ELSE Prefixed_names(Ipc_eventNames(R, Front(view)), Last(view))

RECURSIVE Ipc_handlerNames(_, _)
Ipc_handlerNames(R, view) ==
  IF view = <<>> THEN Core_handlerNames(R)
  ELSE Prefixed_names(Ipc_handlerNames(R, Front(view)), Last(view))

\* removeAllListeners(path?) of a view.  Without a path it calls itself for
\* every name the view lists; for the empty name that call is again one
\* without a path, which lists the empty name again: the recursion has no
\* end and the call stack overflows (RangeError) at that name.
RECURSIVE Ipc_removeAllListeners(_, _, _)
RECURSIVE Prefixed_forEachEvent(_, _, _)
Ipc_removeAllListeners(R, view, path) ==
  IF view = <<>> THEN Done(Core_removeAllListeners(R, path))
  ELSE IF path # <<>>
       THEN Ipc_removeAllListeners(R, Front(view), Prefixed_join(Last(view), path))
       ELSE Prefixed_forEachEvent(R, view, Ipc_eventNames(R, view))

Prefixed_forEachEvent(R, view, names) ==
  IF names = <<>> THEN Done(R)
  ELSE IF Head(names) = <<>> THEN Thrown(R, "RangeError")
  ELSE LET r == Ipc_removeAllListeners(R, view, Head(names))
       IN IF r.err # "" THEN r ELSE Prefixed_forEachEvent(r.reg, view, Tail(names))

RECURSIVE Ipc_removeHandler(_, _, _)
RECURSIVE Prefixed_forEachHandler(_, _, _)
Ipc_removeHandler(R, view, path) ==
  IF view = <<>> THEN Done(Core_removeHandler(R, path))
  ELSE IF path # <<>>
       THEN Ipc_removeHandler(R, Front(view), Prefixed_join(Last(view), path))
       ELSE Prefixed_forEachHandler(R, view, Ipc_handlerNames(R, view))

Prefixed_forEachHandler(R, view, names) ==
  IF names = <<>> THEN Done(R)
  ELSE IF Head(names) = <<>> THEN Thrown(R, "RangeError")
  ELSE LET r == Ipc_removeHandler(R, view, Head(names))
       IN IF r.err # "" THEN r ELSE Prefixed_forEachHandler(r.reg, view, Tail(names))

\* a removeAll() of a view that hands the call to the root as it is
Ipc_removeAll_Forwarded(R, view) == Done(Core_removeAll(R))

\* removeAll(): removeAllListeners() then removeHandler()
Ipc_removeAll(R, view) ==
  LET r == Ipc_removeAllListeners(R, view, <<>>)
  IN IF r.err # "" THEN r ELSE Ipc_removeHandler(r.reg, view, <<>>)

\* handle / handleOnce: the root throws for a name that has a handler
RECURSIVE Ipc_handle(_, _, _, _, _)
Ipc_handle(R, view, path, fn, once) ==
  IF view = <<>>
  THEN IF Core_handleThrows(R, path) THEN Thrown(R, "DuplicateHandler")
       ELSE Done(Core_handle(R, path, fn, once))
  ELSE Ipc_handle(R, Front(view), Prefixed_join(Last(view), path), fn, once)

\* the path a view's send, invoke and respond hand to the root
RECURSIVE Ipc_path(_, _)
Ipc_path(view, path) ==
  IF view = <<>> THEN path
  ELSE Ipc_path(Front(view), Prefixed_join(Last(view), path))

---------------------------------------------------------------------------
(* Endpoints, values and envelopes *)

Hub == "main"

Spokes == {"r1", "r2"}

Endpoints == {Hub} \cup Spokes

\* the values that travel: arguments, handler results and errors
NoVal == [tag |-> "none", fn |-> "", arg |-> "", path |-> <<>>, id |-> 0]

Arg(x) == [NoVal EXCEPT !.tag = "arg", !.arg = x]

\* what handler fn returns for the argument x (a + ' world' in the tests)
Result(fn, x) == [NoVal EXCEPT !.tag = "value", !.fn = fn, !.arg = x]

\* new Error(e.message) for what handler fn throws or rejects with
HandlerFailure(fn, x) == [NoVal EXCEPT !.tag = "HandlerFailure", !.fn = fn, !.arg = x]

\* new Error(`No handler found for '${path}'`)
NoHandlerFound(path) == [NoVal EXCEPT !.tag = "NoHandlerFound", !.path = path]

\* new Error(`Timeout for response with reqId '${reqId}'`)
ResponseTimeout(reqId) == [NoVal EXCEPT !.tag = "ResponseTimeout", !.id = reqId]

\* the Error object handler fn returns for the argument x
ReturnedError(fn, x) == [NoVal EXCEPT !.tag = "ReturnedError", !.fn = fn, !.arg = x]

\* value instanceof Error
IsError(v) ==
  v.tag \in {"HandlerFailure", "NoHandlerFound", "ResponseTimeout", "ReturnedError"}

\* the handlers of the model: f returns a value, bad throws or rejects
Fns == {"f", "bad"}

Fails(fn) == fn = "bad"

\* what an invocation of fn with x ends with: the handler errs returns an
\* Error object
Outcome(fn, x) ==
  IF Fails(fn) THEN HandlerFailure(fn, x)
  ELSE IF fn = "errs" THEN ReturnedError(fn, x)
  ELSE Result(fn, x)

\* IpcCore.sendRequest: the envelope {path, headers: {...headers, reqId}, args}
Envelope(path, reqId, handler, resId, error, args) ==
  [from |-> "", to |-> "", path |-> path, reqId |-> reqId, handler |-> handler,
   resId |-> resId, error |-> error, args |-> args]

\* IpcCoreMain.sendRequest sends to every window, IpcCoreRenderer.sendRequest
\* to the hub
Transport(e, env) ==
  IF e = Hub THEN {[env EXCEPT !.from = e, !.to = w] : w \in windows}
  ELSE {[env EXCEPT !.from = e, !.to = Hub]}

\* IpcCore.respond(reqId, path, ...args): a leading Error argument becomes
\* headers.error and leaves the arguments
Respond(resId, path, v, id) ==
  IF IsError(v) THEN Envelope(path, id, FALSE, resId, v, NoVal)
  ELSE Envelope(path, id, FALSE, resId, NoVal, v)

\* IpcCore.maxTry / IpcCoreMain.maxTry
MaxTry(e) == IF e = Hub THEN Cardinality(windows) ELSE 1

\* the deadline of onResponse (opts.timeout), and the length of a clock tick
TimeoutMs == 10000

TickMs == 5000

\* the bounds of the model: the ticks the clock runs for, and the invokes
\* made in all (MaxInvokes under Spec, MaxPair under SpecPair)
MaxTime == 2

MaxInvokes == 1

MaxPair == 2

Reg(e) == [eventList |-> eventList[e], events |-> events[e],
           handlerList |-> handlerList[e], handlerEvent |-> handlerEvent[e]]

SetReg(e, R) ==
  /\ eventList' = [eventList EXCEPT ![e] = R.eventList]
  /\ events' = [events EXCEPT ![e] = R.events]
  /\ handlerList' = [handlerList EXCEPT ![e] = R.handlerList]
  /\ handlerEvent' = [handlerEvent EXCEPT ![e] = R.handlerEvent]

RegUnchanged == UNCHANGED <<eventList, events, handlerList, handlerEvent>>

Active(e) == e = Hub \/ e \in windows

\* the record of the last operation: what it was, what it threw ("" when it
\* returned), the listeners it invoked and, for a registry operation, the
\* view, the path and the listener it was called with
ViewOp(op, err, heard, view, path) ==
  [op |-> op, err |-> err, heard |-> heard, view |-> view, path |-> path, fn |-> ""]

ListenerOp(op, err, view, path, fn) ==
  [ViewOp(op, err, <<>>, view, path) EXCEPT !.fn = fn]

Op(op, err, heard) == ViewOp(op, err, heard, <<>>, <<>>)

\* the invoke that generated the request id
InvokeOf(id) == CHOOSE k \in 1..Len(invokes) : invokes[k].reqId = id

IsInvoke(id) == \E k \in 1..Len(invokes) : invokes[k].reqId = id

Elapsed(k) == (now - invokes[k].sentAt) * TickMs

---------------------------------------------------------------------------
(* IpcCore.onRequest *)

\* what the listeners of the model do when they are invoked: the listener
\* registers calls this.on('a/:x', l), the listener removes calls
\* this.removeAllListeners('a/:x'), every other listener leaves the
\* dispatcher alone
ListenerBody(fn) ==
  CASE fn = "registers" -> [op |-> "on", path |-> <<"a", "/", ":", "x">>, fn |-> "l"]
    [] fn = "removes" -> [op |-> "removeAllListeners", path |-> <<"a", "/", ":", "x">>, fn |-> ""]
    [] OTHER -> [op |-> "", path |-> <<>>, fn |-> ""]

\* the registries after the listener fn has run
ListenerRuns(R, fn) ==
  LET b == ListenerBody(fn)
  IN CASE b.op = "on" -> Core_on(R, b.path, Plain(b.fn))
       [] b.op = "removeAllListeners" -> Core_removeAllListeners(R, b.path)
       [] OTHER -> R

\* Map.prototype.forEach walks the live map: of the first done entries of
\* the list L (those visited), the ones the list L2 still holds stay behind
\* the position of the walk; an entry added since is ahead of it
Visited(L, L2, done) == Cardinality({i \in 1..done : Has(L2, L[i].name)})

\* EventEmitter.emit(name): the listeners ls, which the name held when emit
\* was called, are invoked in their order; a wrapper of once() takes itself
\* out before it calls its function.  The result is the registries
\* afterwards and the position of the walk through eventList.
RECURSIVE Emit(_, _, _, _)
Emit(R, done, name, ls) ==
  IF ls = <<>> THEN [reg |-> R, done |-> done]
  ELSE LET l == Head(ls)
           R1 == IF l.once THEN Core_wrapperFired(R, name, l.fn) ELSE R
           d1 == Visited(R.eventList, R1.eventList, done)
           R2 == ListenerRuns(R1, l.fn)
           d2 == Visited(R1.eventList, R2.eventList, d1)
       IN Emit(R2, d2, name, Tail(ls))

\* a dispatcher that invokes no listener
EmitMatching_Deaf(R, done, m, heard) == [reg |-> R, heard |-> <<>>]

\* lines 75-81: eventList.forEach emits every name whose regexp matches the
\* path of the envelope m, the names the listeners add on the way included
\* and the names they delete before the walk reaches them left out; the
\* result is the registries afterwards and the listeners invoked, in order,
\* each with the params of its own pattern and the args of the envelope
RECURSIVE EmitMatching(_, _, _, _)
EmitMatching(R, done, m, heard) ==
  IF done >= Len(R.eventList) THEN [reg |-> R, heard |-> heard]
  ELSE LET name == R.eventList[done + 1].name
       IN IF RegexpTest(name, m.path)
          THEN LET ls == IF Has(R.events, name) THEN Get(R.events, name).listeners ELSE <<>>
                   calls == [i \in 1..Len(ls) |->
                               [name |-> name, fn |-> ls[i].fn,
                                params |-> PathMatch(name, m.path).params,
                                args |-> m.args]]
                   r == Emit(R, done + 1, name, ls)
               IN EmitMatching(r.reg, r.done, m, heard \o calls)
          ELSE EmitMatching(R, done + 1, m, heard)

\* lines 85-94: the entries of handlerList whose regexp matches the path;
\* the map() emits handlerEvent for every one of them
MatchingHandlers(hl, path) == SelectSeq(hl, LAMBDA h : RegexpTest(h.name, path))

\* a handleOnce whose registration stays while the handler runs
RemoveOnce_Late(R, hs) == R

\* the wrapper of handleOnce removes the registration before the handler runs
RECURSIVE RemoveOnce(_, _)
RemoveOnce(R, hs) ==
  IF hs = <<>> THEN R
  ELSE RemoveOnce(IF Head(hs).once THEN Core_removeHandler(R, Head(hs).name) ELSE R,
                  Tail(hs))

\* the indices of s in I, in increasing order
RECURSIVE Ordered(_, _)
Ordered(I, n) ==
  IF n = 0 THEN <<>>
  ELSE IF n \in I THEN Append(Ordered(I, n - 1), n) ELSE Ordered(I, n - 1)

\* a response listener that resolves whatever the header says
OnResponseListener_IgnoresError(v, m) ==
  [v EXCEPT !.state = "Resolved", !.value = m.args]

\* a response listener that no longer resolves after an error response
OnResponseListener_ErrorWins(v, m) ==
  IF ~IsError(m.error)
  THEN IF v.nbTry = v.maxTry
       THEN [v EXCEPT !.state = "Resolved", !.value = m.args]
       ELSE v
  ELSE IF v.nbTry - 1 <= 0
       THEN [v EXCEPT !.nbTry = @ - 1, !.state = "Rejected", !.value = m.error]
       ELSE [v EXCEPT !.nbTry = @ - 1]

\* a response listener without retry budget: the first error rejects
OnResponseListener_NoRetry(v, m) ==
  IF ~IsError(m.error)
  THEN [v EXCEPT !.state = "Resolved", !.value = m.args]
  ELSE [v EXCEPT !.nbTry = @ - 1, !.state = "Rejected", !.value = m.error]

\* lines 109-115: the listener onResponse puts on responseEvent, for the
\* pending invoke v and the response m
OnResponseListener(v, m) ==
  IF ~IsError(m.error)
  THEN [v EXCEPT !.state = "Resolved", !.value = m.args]
  ELSE IF v.nbTry - 1 <= 0
       THEN [v EXCEPT !.nbTry = @ - 1, !.state = "Rejected", !.value = m.error]
       ELSE [v EXCEPT !.nbTry = @ - 1]

\* a correlation that does not look at the id
Correlates_AnyId(v, m, e) == m.resId # 0 /\ v.by = e

\* lines 98-100: responseEvent.emit(headers.resId) at the endpoint e reaches
\* the listener that the invoke v of e has put under its reqId
Correlates(v, m, e) == m.resId # 0 /\ v.reqId = m.resId /\ v.by = e

OnRequest(m) ==
  LET e == m.to
      R == Reg(e)
      d == EmitMatching(R, 0, m, <<>>)
      hs == IF m.handler THEN MatchingHandlers(d.reg.handlerList, m.path) ELSE <<>>
      R2 == RemoveOnce(d.reg, hs)
  IN
  /\ m \in net
  /\ \E later \in {L \in SUBSET (1..Len(hs)) :
                     \A i \in 1..Len(hs) : ~Fails(hs[i].fn) => i \in L} :
       LET sync == Ordered((1..Len(hs)) \ later, Len(hs))
           answers == {Respond(m.reqId, hs[sync[j]].name,
                               Outcome(hs[sync[j]].fn, m.args.arg), nextId + j - 1)
                         : j \in 1..Len(sync)}
           none == IF m.handler /\ hs = <<>>
                   THEN {Respond(m.reqId, m.path, NoHandlerFound(m.path), nextId)}
                   ELSE {}
           out == UNION {Transport(e, r) : r \in answers \cup none}
           started == {[at |-> e, resId |-> m.reqId, path |-> hs[i].name,
                        fn |-> hs[i].fn, arg |-> m.args.arg] : i \in later}
           asked == [k \in 1..Len(invokes) |->
                       IF m.handler /\ invokes[k].reqId = m.reqId
                       THEN [invokes[k] EXCEPT
                               !.got = @ \cup {e},
                               !.served = @ \cup {[at |-> e, pos |-> i, name |-> hs[i].name,
                                                   fn |-> hs[i].fn, once |-> hs[i].once,
                                                   params |-> PathMatch(hs[i].name, m.path).params]
                                                    : i \in 1..Len(hs)},
                               !.nresp[e] = @ + Cardinality(answers \cup none)]
                       ELSE invokes[k]]
       IN /\ SetReg(e, R2)
          /\ tasks' = tasks \cup started
          /\ nextId' = nextId + Cardinality(answers \cup none)
          /\ net' = (net \ {m}) \cup out
          /\ invokes' = [k \in 1..Len(invokes) |->
                           IF Correlates(asked[k], m, e)
                           THEN LET v == [asked[k] EXCEPT
                                            !.errs = @ + IF IsError(m.error) THEN 1 ELSE 0,
                                            !.answered = @ \cup {m.from}]
                                IN IF v.state = "Sent" THEN OnResponseListener(v, m) ELSE v
                           ELSE asked[k]]
          /\ last' = Op("onRequest", "", d.heard)
  /\ UNCHANGED <<windows, now>>

\* the asynchronous result of a handler arrives (lines 185-189): respond
HandlerSettle(t) ==
  /\ t \in tasks
  /\ LET out == Transport(t.at, Respond(t.resId, t.path, Outcome(t.fn, t.arg), nextId))
     IN /\ net' = net \cup out
        /\ last' = Op("respond", "", <<>>)
  /\ tasks' = tasks \ {t}
  /\ nextId' = nextId + 1
  /\ invokes' = [k \in 1..Len(invokes) |->
                   IF invokes[k].reqId = t.resId
                   THEN [invokes[k] EXCEPT !.nresp[t.at] = @ + 1]
                   ELSE invokes[k]]
  /\ RegUnchanged
  /\ UNCHANGED <<windows, now>>

\* IpcCore.invoke, on the root (view <<>>) or through a prefixed view
Invoke(e, view, path, x) ==
  LET full == Ipc_path(view, path)
      out == Transport(e, Envelope(full, nextId, TRUE, 0, NoVal, Arg(x)))
  IN /\ Active(e)
     /\ net' = net \cup out
     /\ invokes' = Append(invokes,
           [reqId |-> nextId, by |-> e, path |-> full, arg |-> x,
            maxTry |-> MaxTry(e), nbTry |-> MaxTry(e), sentAt |-> now,
            state |-> "Sent", value |-> NoVal,
            got |-> {}, served |-> {}, nresp |-> [p \in Endpoints |-> 0], errs |-> 0,
            answered |-> {}])
     /\ nextId' = nextId + 1
     /\ last' = ViewOp("invoke", "", <<>>, view, path)
     /\ RegUnchanged
     /\ UNCHANGED <<windows, tasks, now>>

\* a timer that never fires
TimerFire_Never(k) ==
  /\ k \in {}
  /\ UNCHANGED vars

\* a timer that is not cleared when the promise settles
TimerFire_NotCleared(k) ==
  /\ k \in 1..Len(invokes)
  /\ Elapsed(k) >= TimeoutMs
  /\ invokes' = [invokes EXCEPT ![k].state = "Rejected",
                                ![k].value = ResponseTimeout(invokes[k].reqId)]
  /\ last' = Op("timeout", "", <<>>)
  /\ RegUnchanged
  /\ UNCHANGED <<windows, net, tasks, nextId, now>>

\* the timer of onResponse (lines 106-108) fires: the deadline has elapsed
\* and the promise is still pending (clearTimeout runs when it settles)
TimerFire(k) ==
  /\ k \in 1..Len(invokes)
  /\ invokes[k].state = "Sent"
  /\ Elapsed(k) >= TimeoutMs
  /\ invokes' = [invokes EXCEPT ![k].state = "Rejected",
                                ![k].value = ResponseTimeout(invokes[k].reqId)]
  /\ last' = Op("timeout", "", <<>>)
  /\ RegUnchanged
  /\ UNCHANGED <<windows, net, tasks, nextId, now>>

\* IpcCore.handle / handleOnce, on the root or through a prefixed view
Handle(e, view, path, fn, once) ==
  LET r == Ipc_handle(Reg(e), view, path, fn, once)
  IN /\ Active(e)
     /\ SetReg(e, r.reg)
     /\ last' = ListenerOp(IF once THEN "handleOnce" ELSE "handle", r.err, view, path, fn)
     /\ UNCHANGED <<windows, invokes, net, tasks, nextId, now>>

\* IpcCore.removeHandler(path?), on the root or through a prefixed view
RemoveHandler(e, view, path) ==
  LET r == Ipc_removeHandler(Reg(e), view, path)
  IN /\ Active(e)
     /\ SetReg(e, r.reg)
     /\ last' = ViewOp("removeHandler", r.err, <<>>, view, path)
     /\ UNCHANGED <<windows, invokes, net, tasks, nextId, now>>

\* on / addListener, on the root or through a prefixed view
On(e, view, path, fn) ==
  /\ Active(e)
  /\ SetReg(e, Ipc_on(Reg(e), view, path, fn))
  /\ last' = ListenerOp("on", "", view, path, fn)
  /\ UNCHANGED <<windows, invokes, net, tasks, nextId, now>>

\* once
Once(e, view, path, fn) ==
  /\ Active(e)
  /\ SetReg(e, Ipc_once(Reg(e), view, path, fn))
  /\ last' = ListenerOp("once", "", view, path, fn)
  /\ UNCHANGED <<windows, invokes, net, tasks, nextId, now>>

\* off / removeListener
RemoveListener(e, view, path, fn) ==
  /\ Active(e)
  /\ SetReg(e, Ipc_removeListener(Reg(e), view, path, fn))
  /\ last' = ListenerOp("removeListener", "", view, path, fn)
  /\ UNCHANGED <<windows, invokes, net, tasks, nextId, now>>

\* removeAllListeners(path?)
RemoveAllListeners(e, view, path) ==
  LET r == Ipc_removeAllListeners(Reg(e), view, path)
  IN /\ Active(e)
     /\ SetReg(e, r.reg)
     /\ last' = ViewOp("removeAllListeners", r.err, <<>>, view, path)
     /\ UNCHANGED <<windows, invokes, net, tasks, nextId, now>>

\* a removeAll() that also gives up the invokes its dispatcher has pending
RemoveAll_DropsPending(e, view) ==
  LET r == Ipc_removeAll(Reg(e), view)
  IN /\ Active(e)
     /\ SetReg(e, r.reg)
     /\ last' = ViewOp("removeAll", r.err, <<>>, view, <<>>)
     /\ invokes' = [k \in 1..Len(invokes) |->
                      IF invokes[k].by = e /\ invokes[k].state = "Sent"
                      THEN [invokes[k] EXCEPT !.state = "Rejected",
                                              !.value = ResponseTimeout(invokes[k].reqId)]
                      ELSE invokes[k]]
     /\ UNCHANGED <<windows, net, tasks, nextId, now>>

\* removeAll()
RemoveAll(e, view) ==
  LET r == Ipc_removeAll(Reg(e), view)
  IN /\ Active(e)
     /\ SetReg(e, r.reg)
     /\ last' = ViewOp("removeAll", r.err, <<>>, view, <<>>)
     /\ UNCHANGED <<windows, invokes, net, tasks, nextId, now>>

\* send(path, ...args), on the root or through a prefixed view
Send(e, view, path, x) ==
  LET full == Ipc_path(view, path)
      out == Transport(e, Envelope(full, nextId, FALSE, 0, NoVal, Arg(x)))
  IN /\ Active(e)
     /\ net' = net \cup out
     /\ nextId' = nextId + 1
     /\ last' = ViewOp("send", "", <<>>, view, path)
     /\ RegUnchanged
     /\ UNCHANGED <<windows, invokes, tasks, now>>

\* respond(reqId, path, ...args) called by hand, on the root or through a
\* prefixed view, for the request of invoke k
Answer(e, view, k, path, v) ==
  LET full == Ipc_path(view, path)
      out == Transport(e, Respond(invokes[k].reqId, full, v, nextId))
  IN /\ Active(e)
     /\ net' = net \cup out
     /\ nextId' = nextId + 1
     /\ invokes' = [invokes EXCEPT ![k].nresp[e] = @ + 1]
     /\ last' = ViewOp("respond", "", <<>>, view, path)
     /\ RegUnchanged
     /\ UNCHANGED <<windows, tasks, now>>

\* time passes while an invoke is pending (no timer runs otherwise); a timer
\* that is due fires before the clock moves on
Tick ==
  /\ now < MaxTime
  /\ \E k \in 1..Len(invokes) : invokes[k].state = "Sent"
  /\ \A k \in 1..Len(invokes) : invokes[k].state = "Sent" => Elapsed(k) < TimeoutMs
  /\ now' = now + 1
  /\ last' = Op("tick", "", <<>>)
  /\ RegUnchanged
  /\ UNCHANGED <<windows, invokes, net, tasks, nextId>>

---------------------------------------------------------------------------
(* The dispatchers at work: hub and spokes register handlers, invoke each   *)
(* other and answer.                                                        *)

\* the root dispatcher and the view prefix('a') of it
Root == <<>>

ViewA == Prefixed_new(Root, <<"a">>)

\* where handlers are registered: the patterns a/t and a/:x, on the root or
\* as t and :x through the view
HandlerPlaces ==
  {[view |-> Root, path |-> <<"a", "/", "t">>],
   [view |-> Root, path |-> <<"a", "/", ":", "x">>],
   [view |-> ViewA, path |-> <<"t">>],
   [view |-> ViewA, path |-> <<":", "x">>]}

\* what is invoked: a/t (both patterns match it) and a/u (only a/:x does),
\* on the root or as t and u through the view
RequestPlaces ==
  {[view |-> Root, path |-> <<"a", "/", "t">>],
   [view |-> Root, path |-> <<"a", "/", "u">>],
   [view |-> ViewA, path |-> <<"t">>],
   [view |-> ViewA, path |-> <<"u">>]}

Args == {"hello"}

\* the endpoints other than e hold no handler: one side serves, the other asks
OnlyServer(e) == \A o \in Endpoints \ {e} : handlerList[o] = <<>>

Init ==
  /\ windows \in SUBSET Spokes
  /\ eventList = [e \in Endpoints |-> <<>>]
  /\ events = [e \in Endpoints |-> <<>>]
  /\ handlerList = [e \in Endpoints |-> <<>>]
  /\ handlerEvent = [e \in Endpoints |-> <<>>]
  /\ invokes = <<>>
  /\ net = {}
  /\ tasks = {}
  /\ nextId = 1
  /\ now = 0
  /\ last = Op("init", "", <<>>)

\* handlers are registered before the requests are made, as in the tests
DoHandle ==
  \E e \in Endpoints, p \in HandlerPlaces, fn \in Fns, once \in BOOLEAN :
    /\ invokes = <<>>
    /\ OnlyServer(e)
    /\ Handle(e, p.view, p.path, fn, once)

\* the clock runs long enough for the deadline of an invoke made now
InTime == (MaxTime - now) * TickMs >= TimeoutMs

DoInvoke ==
  \E e \in Endpoints, p \in RequestPlaces, x \in Args :
    /\ Len(invokes) < MaxInvokes
    /\ InTime
    /\ Invoke(e, p.view, p.path, x)

\* the channel between two processes delivers in the order of sending, which
\* is the order of the request ids (the model's uuid is a counter)
InOrder(m) ==
  ~\E o \in net : o.from = m.from /\ o.to = m.to /\ o.reqId < m.reqId

DoDeliver == \E m \in net : InOrder(m) /\ OnRequest(m)

DoSettle == \E t \in tasks : HandlerSettle(t)

DoTimer == \E k \in 1..Len(invokes) : TimerFire(k)

Next ==
  \/ DoHandle
  \/ DoInvoke
  \/ DoDeliver
  \/ DoSettle
  \/ DoTimer
  \/ Tick

\* one invoke, between the hub and zero, one or two spokes
Spec == Init /\ [][Next]_vars

\* the same with timers that run: time passes while an invoke is pending and
\* a timer that is due fires (setTimeout); nothing is assumed of the peers,
\* of the transport or of the handlers
SpecLive == Spec /\ WF_vars(Tick) /\ WF_vars(DoTimer)

---------------------------------------------------------------------------
(* One invoke, while windows open and close: a window that closes loses its *)
(* dispatcher, the handlers at work in it and the envelopes on their way to *)
(* it; what it has sent may still arrive.                                    *)

\* a BrowserWindow is opened: getAllWindows() has it from now on
Connect(w) ==
  /\ w \notin windows
  /\ windows' = windows \cup {w}
  /\ last' = Op("connect", "", <<>>)
  /\ RegUnchanged
  /\ UNCHANGED <<invokes, net, tasks, nextId, now>>

\* a BrowserWindow is closed
Disconnect(w) ==
  /\ w \in windows
  /\ windows' = windows \ {w}
  /\ net' = {m \in net : m.to # w}
  /\ tasks' = {t \in tasks : t.at # w}
  /\ SetReg(w, EmptyReg)
  /\ last' = Op("disconnect", "", <<>>)
  /\ UNCHANGED <<invokes, nextId, now>>

\* the windows change while an invoke of the hub is pending
DoChurn ==
  \E w \in Spokes :
    /\ \E k \in 1..Len(invokes) : invokes[k].by = Hub /\ invokes[k].state = "Sent"
    /\ Connect(w) \/ Disconnect(w)

NextChurn == Next \/ DoChurn

SpecChurn == Init /\ [][NextChurn]_vars

---------------------------------------------------------------------------
(* Two invokes, between the hub and one spoke, within the deadline of the   *)
(* first (no timer fires).                                                  *)

InitPair ==
  /\ Init
  /\ windows = {"r1"}

PairInvoke ==
  \E e \in Endpoints, p \in RequestPlaces, x \in Args :
    /\ Len(invokes) < MaxPair
    /\ Invoke(e, p.view, p.path, x)

NextPair ==
  \/ DoHandle
  \/ PairInvoke
  \/ DoDeliver
  \/ DoSettle

SpecPair == InitPair /\ [][NextPair]_vars

---------------------------------------------------------------------------
(* Two invokes, made by two spokes, of handlers of the hub: the responses of *)
(* the hub go to both windows.                                               *)

InitCross ==
  /\ Init
  /\ windows = Spokes

CrossHandle ==
  \E p \in HandlerPlaces, fn \in Fns :
    /\ invokes = <<>>
    /\ p.view = Root
    /\ Handle(Hub, p.view, p.path, fn, FALSE)

CrossInvoke ==
  \E e \in Spokes, p \in RequestPlaces, x \in Args :
    /\ Len(invokes) < MaxPair
    /\ p.view = Root
    /\ Invoke(e, p.view, p.path, x)

NextCross ==
  \/ CrossHandle
  \/ CrossInvoke
  \/ DoDeliver
  \/ DoSettle

SpecCross == InitCross /\ [][NextCross]_vars

---------------------------------------------------------------------------
(* The registries of the hub, worked on through the root and through nested *)
(* prefixed views; then one message from the spoke, sent through the views  *)
(* of the spoke.                                                            *)

\* the strings prefix() is called with: for the outer view, and for the view
\* nested in it (the empty string is one of them)
PrefixB == {<<"B">>, <<"/", "B", "/">>}

PrefixE == {<<"E">>, <<"E", "/">>, <<>>}

\* the chains of prefix() calls that make the views
Chains ==
  {<<>>} \cup {<<b>> : b \in PrefixB} \cup {<<b, e>> : b \in PrefixB, e \in PrefixE}

\* d.prefix(p1).prefix(p2)...
RECURSIVE MakeView(_)
MakeView(chain) ==
  IF chain = <<>> THEN Root
  ELSE Prefixed_new(MakeView(Front(chain)), Last(chain))

Views == {MakeView(c) : c \in Chains}

\* the paths the operations are called with: on the root the names B and BC,
\* which are not under B/; through a view F and /F
PathsOf(view) ==
  IF view = Root THEN {<<"B">>, <<"B", "C">>}
  ELSE {<<"F">>, <<"/", "F">>}

Listeners == {"l"}

ViewFns == {"f"}

\* the registrations a dispatcher holds may not exceed MaxRegs
MaxRegs == 2

\* one send or invoke is made, to a hub that holds MaxServed registrations
\* or fewer
MaxCalls == 1

MaxServed == 2

RECURSIVE CountListeners(_)
CountListeners(em) ==
  IF em = <<>> THEN 0 ELSE Len(Head(em).listeners) + CountListeners(Tail(em))

\* the registrations a dispatcher holds: the listeners of the emitter or
\* those of eventList, whichever are more, and the handlers
Size(e) ==
  LET n == CountListeners(events[e])
      k == CountListeners(eventList[e])
  IN (IF n >= k THEN n ELSE k) + Len(handlerList[e])

\* registrations are made and removed before the message is sent
Setup == nextId = 1

\* a removal that finds nothing to remove and returns changes nothing: the
\* removals made are those that remove something or throw
Removes == last'.err # "" \/ Reg(Hub) # [eventList |-> eventList'[Hub], events |-> events'[Hub],
                                         handlerList |-> handlerList'[Hub],
                                         handlerEvent |-> handlerEvent'[Hub]]

InitView ==
  /\ Init
  /\ windows = {"r1"}

ViewOn ==
  \E v \in Views, fn \in Listeners : \E p \in PathsOf(v) :
    Setup /\ Size(Hub) < MaxRegs /\ On(Hub, v, p, fn)

ViewOnce ==
  \E v \in Views, fn \in Listeners : \E p \in PathsOf(v) :
    Setup /\ Size(Hub) < MaxRegs /\ Once(Hub, v, p, fn)

ViewRemoveListener ==
  \E v \in Views, fn \in Listeners : \E p \in PathsOf(v) :
    Setup /\ RemoveListener(Hub, v, p, fn) /\ Removes

ViewRemoveAllListeners ==
  \E v \in Views : \E p \in PathsOf(v) \cup {<<>>} :
    Setup /\ RemoveAllListeners(Hub, v, p) /\ Removes

ViewHandle ==
  \E v \in Views, fn \in ViewFns, once \in BOOLEAN : \E p \in PathsOf(v) :
    Setup /\ Size(Hub) < MaxRegs /\ Handle(Hub, v, p, fn, once)

ViewRemoveHandler ==
  \E v \in Views : \E p \in PathsOf(v) \cup {<<>>} :
    Setup /\ RemoveHandler(Hub, v, p) /\ Removes

ViewRemoveAll == \E v \in Views : Setup /\ RemoveAll(Hub, v) /\ Removes

ViewSend ==
  \E v \in Views, x \in Args : \E p \in PathsOf(v) :
    nextId <= MaxCalls /\ Size(Hub) <= MaxServed /\ Send("r1", v, p, x)

ViewInvoke ==
  \E v \in Views, x \in Args : \E p \in PathsOf(v) :
    nextId <= MaxCalls /\ Size(Hub) <= MaxServed /\ Invoke("r1", v, p, x)

\* the hub answers a request it has received and not answered yet by hand
ViewRespond ==
  \E v \in Views, k \in 1..Len(invokes), x \in Args : \E p \in PathsOf(v) :
    /\ invokes[k].state = "Sent"
    /\ Hub \in invokes[k].got
    /\ invokes[k].nresp[Hub] = 0
    /\ Answer(Hub, v, k, p, Result("f", x))

NextView ==
  \/ ViewOn
  \/ ViewOnce
  \/ ViewRemoveListener
  \/ ViewRemoveAllListeners
  \/ ViewHandle
  \/ ViewRemoveHandler
  \/ ViewRemoveAll
  \/ ViewSend
  \/ ViewInvoke
  \/ ViewRespond
  \/ DoDeliver
  \/ DoSettle

SpecView == InitView /\ [][NextView]_vars

---------------------------------------------------------------------------
(* Routing: the hub registers listeners and handlers on patterns with named *)
(* and optional parameters and removes listeners while no message is on its *)
(* way; the spoke sends and invokes paths, one message after the other.     *)

\* the patterns a/:id1/:id2, a/:id1/:id2? and a/x of the tests, and the
\* pattern 1
RoutePatterns ==
  {<<"a", "/", ":", "i", "d", "1", "/", ":", "i", "d", "2">>,
   <<"a", "/", ":", "i", "d", "1", "/", ":", "i", "d", "2", "?">>,
   <<"a", "/", "x">>,
   <<"1">>}

\* the paths sent: a/x/7, a/x and 1
RoutePaths == {<<"a", "/", "x", "/", "7">>, <<"a", "/", "x">>, <<"1">>}

RouteListeners == {"l1", "l2"}

\* the registrations the hub may hold (they are made before the first send or
\* invoke; removals are made at any quiet moment), and the request ids handed
\* out before the last send or invoke
MaxRoutes == 2

MaxRouted == 2

\* no envelope is on its way and no handler is at work
Quiet == net = {} /\ tasks = {}

InitRoute ==
  /\ Init
  /\ windows = {"r1"}

RouteOn ==
  \E p \in RoutePatterns, fn \in RouteListeners :
    Setup /\ Size(Hub) < MaxRoutes /\ On(Hub, Root, p, fn)

RouteOnce ==
  \E p \in RoutePatterns, fn \in RouteListeners :
    Setup /\ Size(Hub) < MaxRoutes /\ Once(Hub, Root, p, fn)

RouteRemoveListener ==
  \E p \in RoutePatterns, fn \in RouteListeners :
    Quiet /\ RemoveListener(Hub, Root, p, fn) /\ Removes

RouteHandle ==
  \E p \in RoutePatterns, fn \in ViewFns, once \in BOOLEAN :
    Setup /\ Size(Hub) < MaxRoutes /\ Handle(Hub, Root, p, fn, once)

RouteRemoveHandler ==
  \E p \in RoutePatterns :
    Quiet /\ RemoveHandler(Hub, Root, p) /\ Removes

RouteSend ==
  \E p \in RoutePaths, x \in Args :
    Quiet /\ nextId <= MaxRouted /\ Send("r1", Root, p, x)

RouteInvoke ==
  \E p \in RoutePaths, x \in Args :
    Quiet /\ nextId <= MaxRouted /\ Invoke("r1", Root, p, x)

NextRoute ==
  \/ RouteOn
  \/ RouteOnce
  \/ RouteRemoveListener
  \/ RouteHandle
  \/ RouteRemoveHandler
  \/ RouteSend
  \/ RouteInvoke
  \/ DoDeliver
  \/ DoSettle

SpecRoute == InitRoute /\ [][NextRoute]_vars

---------------------------------------------------------------------------
(* Listeners that work on the dispatcher while it dispatches: the hub holds  *)
(* listeners on a/t and a/:x, some of which register or remove listeners     *)
(* when invoked; the spoke sends a/t (both patterns match) or a/u.           *)

WalkListeners == {"l", "registers", "removes"}

\* the registrations made before the envelope is sent
MaxWalk == 3

WalkOn ==
  \E p \in HandlerPlaces, fn \in WalkListeners, once \in BOOLEAN :
    /\ Setup
    /\ p.view = Root
    /\ Size(Hub) < MaxWalk
    /\ IF once THEN Once(Hub, Root, p.path, fn) ELSE On(Hub, Root, p.path, fn)

WalkSend ==
  \E p \in RequestPlaces, x \in Args :
    /\ Setup
    /\ p.view = Root
    /\ Send("r1", Root, p.path, x)

NextWalk ==
  \/ WalkOn
  \/ WalkSend
  \/ DoDeliver

SpecWalk == InitView /\ [][NextWalk]_vars

---------------------------------------------------------------------------
(* Responses at the caller: the spoke holds listeners and handlers of its    *)
(* own on the patterns the hub serves, and invokes the hub.                  *)

\* the registrations the spoke makes
MaxEcho == 2

EchoOn ==
  \E p \in HandlerPlaces, fn \in Listeners, once \in BOOLEAN :
    /\ invokes = <<>>
    /\ p.view = Root
    /\ Size("r1") < MaxEcho
    /\ IF once THEN Once("r1", Root, p.path, fn) ELSE On("r1", Root, p.path, fn)

EchoHandle ==
  \E e \in {Hub, "r1"}, p \in HandlerPlaces, fn \in Fns :
    /\ invokes = <<>>
    /\ p.view = Root
    /\ Size(e) < MaxEcho
    /\ Handle(e, Root, p.path, fn, FALSE)

EchoInvoke ==
  \E p \in RequestPlaces, x \in Args :
    /\ invokes = <<>>
    /\ p.view = Root
    /\ Invoke("r1", Root, p.path, x)

NextEcho ==
  \/ EchoOn
  \/ EchoHandle
  \/ EchoInvoke
  \/ DoDeliver
  \/ DoSettle

SpecEcho == InitView /\ [][NextEcho]_vars

---------------------------------------------------------------------------
(* removeAll() on the root while requests are under way: the hub and the     *)
(* spoke register listeners and handlers (on the root or through the view),  *)
(* invoke each other, and call removeAll() at any moment, also between an    *)
(* invoke and its response; they register again afterwards.                  *)

\* the registrations the spoke holds at a time; the hub holds one
MaxReset == 2

ResetRegister ==
  \E e \in {Hub, "r1"}, p \in HandlerPlaces, fn \in ViewFns, listens \in BOOLEAN :
    /\ Size(e) < (IF e = "r1" THEN MaxReset ELSE 1)
    /\ IF listens THEN On(e, p.view, p.path, "l")
       ELSE Handle(e, p.view, p.path, fn, FALSE)

ResetInvoke ==
  \E e \in {Hub, "r1"}, p \in RequestPlaces, x \in Args :
    /\ invokes = <<>>
    /\ p.view = Root
    /\ InTime
    /\ Invoke(e, Root, p.path, x)

ResetRemoveAll ==
  \E e \in {Hub, "r1"} :
    /\ Reg(e) # EmptyReg
    /\ RemoveAll(e, Root)

NextReset ==
  \/ ResetRegister
  \/ ResetInvoke
  \/ ResetRemoveAll
  \/ DoDeliver
  \/ DoSettle
  \/ DoTimer
  \/ Tick

\* timers run (setTimeout): time passes while an invoke is pending and a timer
\* that is due fires; nothing is assumed of the transport or of the handlers
SpecReset == InitView /\ [][NextReset]_vars /\ WF_vars(Tick) /\ WF_vars(DoTimer)

---------------------------------------------------------------------------
(* Handlers that return: the hub and one spoke, handlers that return a      *)
(* value (f) or an Error object (errs), invokes in both directions.         *)

TypedHandle ==
  \E e \in Endpoints, p \in HandlerPlaces, fn \in {"f", "errs"}, once \in BOOLEAN :
    /\ invokes = <<>>
    /\ OnlyServer(e)
    /\ Handle(e, p.view, p.path, fn, once)

NextTyped ==
  \/ TypedHandle
  \/ PairInvoke
  \/ DoDeliver
  \/ DoSettle

SpecTyped == InitPair /\ [][NextTyped]_vars

---------------------------------------------------------------------------
(* The claims *)

\* the invocation h of a handler for request id has not produced its result
Running(h, id) ==
  \E t \in tasks : t.at = h.at /\ t.resId = id /\ t.path = h.name /\ t.fn = h.fn

\* every dispatcher the request of invoke v was sent to has received it
Received(v) == v.maxTry > 0 /\ Cardinality(v.got) = v.maxTry

\* the responses to invoke v still on their way to its caller
Answers(v) == {m \in net : m.resId = v.reqId /\ m.to = v.by}

\* C1: when the handler that serves the request of an invoke (the first
\* registered pattern matching the path, at a peer) has returned a value v,
\* the invoke is not rejected by a response error: it stays pending until the
\* response arrives or the deadline elapses, and if it resolves it resolves
\* with exactly v.
C1_ResolvesWithHandlerValue ==
  \A k \in 1..Len(invokes) :
    \A h \in invokes[k].served :
      (h.pos = 1 /\ ~Fails(h.fn) /\ ~Running(h, invokes[k].reqId)) =>
        /\ invokes[k].state = "Rejected" => invokes[k].value.tag = "ResponseTimeout"
        /\ invokes[k].state = "Resolved" => invokes[k].value = Result(h.fn, invokes[k].arg)

\* C2: an invoke whose request found no matching handler at any dispatcher
\* that received it never resolves; once every such dispatcher has answered
\* and the answers have arrived it is rejected, with NoHandlerFound naming
\* the invoked path (or with the timeout, when the deadline came first).
C2_NoHandlerFound ==
  \A k \in 1..Len(invokes) :
    LET v == invokes[k]
    IN /\ v.state = "Resolved" => v.served # {}
       /\ (v.state = "Rejected" /\ v.value.tag = "NoHandlerFound") =>
             v.value = NoHandlerFound(v.path)
       /\ (v.served = {} /\ v.state = "Rejected") =>
             v.value \in {NoHandlerFound(v.path), ResponseTimeout(v.reqId)}
       /\ (v.served = {} /\ Received(v) /\ Answers(v) = {}) => v.state = "Rejected"

\* C2, witness: an invoke without any handler was rejected with NoHandlerFound
\* naming its path
C2_Witness ==
  \E k \in 1..Len(invokes) :
    /\ invokes[k].served = {}
    /\ invokes[k].state = "Rejected"
    /\ invokes[k].value = NoHandlerFound(invokes[k].path)

\* C6: a dispatcher emits at most one response for a handler-bound request,
\* and exactly one once every handler it invoked for it has ended.
C6_OneResponse ==
  \A k \in 1..Len(invokes) :
    \A e \in Endpoints :
      /\ invokes[k].nresp[e] <= 1
      /\ (e \in invokes[k].got
            /\ ~\E t \in tasks : t.at = e /\ t.resId = invokes[k].reqId)
           => invokes[k].nresp[e] = 1

\* the operation was a handle() or a handleOnce()
IsHandle(l) == l.op \in {"handle", "handleOnce"}

\* the names of a handler registry, each once
UniqueNames(hl) ==
  \A i, j \in 1..Len(hl) : hl[i].name = hl[j].name => i = j

\* hl2 is hl with entries appended
Extends(hl, hl2) ==
  /\ Len(hl) <= Len(hl2)
  /\ \A i \in 1..Len(hl) : hl2[i] = hl[i]

\* C3: a dispatcher never holds two handlers under one full pattern string,
\* whether registered on the root or through a view; a handle() that fails
\* with DuplicateHandler fails in the call itself and changes nothing
\* (registries, handlerNames(), requests, envelopes), and no handle() ever
\* changes or drops a handler registered before: the original stays, and
\* a request a lasting handler has served was served by the handler its
\* pattern still names.
C3_DuplicateHandler ==
  /\ [](\A e \in Endpoints :
          /\ UniqueNames(handlerList[e])
          /\ Core_handlerNames(Reg(e)) = Names(handlerList[e]))
  /\ [](\A k \in 1..Len(invokes) :
          \A h \in invokes[k].served :
            ~h.once =>
              /\ Has(handlerList[h.at], h.name)
              /\ Get(handlerList[h.at], h.name).fn = h.fn)
  /\ [][/\ (IsHandle(last') /\ last'.err = "DuplicateHandler") =>
              UNCHANGED <<windows, eventList, events, handlerList, handlerEvent,
                          invokes, net, tasks, nextId, now>>
        /\ IsHandle(last') =>
              \A e \in Endpoints :
                /\ Extends(handlerList[e], handlerList'[e])
                /\ Extends(Core_handlerNames(Reg(e)),
                           Core_handlerNames([Reg(e) EXCEPT
                                               !.handlerEvent = handlerEvent'[e]]))
        /\ (IsHandle(last') /\ last'.err = "" /\ last # last') =>
              \E e \in Endpoints : Len(handlerList'[e]) = Len(handlerList[e]) + 1
       ]_vars

\* C3, witness: a handle() has just failed with DuplicateHandler on a
\* dispatcher that holds a handler
C3_Witness ==
  /\ IsHandle(last)
  /\ last.err = "DuplicateHandler"
  /\ \E e \in Endpoints : handlerList[e] # <<>>

\* C4: a handler registered with handleOnce serves at most one request and is
\* out of handlerNames() once invoked; the invoke it is the first match of
\* is not rejected once it has returned its result, and resolves with it; an
\* invoke of the same path received after it, no other handler matching,
\* is rejected with NoHandlerFound.
C4_HandleOnce ==
  \A k \in 1..Len(invokes) :
    \A h \in invokes[k].served :
      h.once =>
        /\ ~Has(handlerList[h.at], h.name)
        /\ ~\E i \in 1..Len(Core_handlerNames(Reg(h.at))) :
               Core_handlerNames(Reg(h.at))[i] = h.name
        /\ \A k2 \in 1..Len(invokes) :
             k2 # k => ~\E h2 \in invokes[k2].served :
                          h2.once /\ h2.at = h.at /\ h2.name = h.name
        /\ (h.pos = 1 /\ ~Fails(h.fn) /\ ~Running(h, invokes[k].reqId)) =>
             /\ invokes[k].state # "Rejected"
             /\ invokes[k].state = "Resolved" =>
                  invokes[k].value = Result(h.fn, invokes[k].arg)
             /\ Answers(invokes[k]) = {} => invokes[k].state = "Resolved"
        /\ \A k2 \in 1..Len(invokes) :
             (/\ k2 # k
              /\ invokes[k].served = {h}
              /\ invokes[k2].path = invokes[k].path
              /\ invokes[k2].by = invokes[k].by
              /\ Received(invokes[k2])
              /\ Answers(invokes[k2]) = {}) =>
                /\ invokes[k2].state = "Rejected"
                /\ invokes[k2].value = NoHandlerFound(invokes[k2].path)

\* C5: an invoke is rejected with a timeout only once the deadline has
\* elapsed, and the timeout names its request id; while the handler serving
\* it has not responded the invoke is pending or timed out, nothing else; an
\* invoke that resolved stays resolved with its value.
C5_ResponseTimeout ==
  /\ [](\A k \in 1..Len(invokes) :
          /\ (invokes[k].state = "Rejected"
                /\ invokes[k].value.tag = "ResponseTimeout") =>
               /\ invokes[k].value = ResponseTimeout(invokes[k].reqId)
               /\ Elapsed(k) >= TimeoutMs
          /\ \A h \in invokes[k].served :
               (h.pos = 1 /\ Running(h, invokes[k].reqId)) =>
                  \/ invokes[k].state = "Sent"
                  \/ invokes[k].value = ResponseTimeout(invokes[k].reqId))
  /\ [][\A k \in 1..Len(invokes) :
          invokes[k].state = "Resolved" => invokes'[k] = invokes[k] \/
             (/\ invokes'[k].state = "Resolved"
              /\ invokes'[k].value = invokes[k].value)]_vars

\* C7: when the handler serving a request has failed, the invoke does not
\* resolve, and if it is rejected it is rejected with that failure (or by its
\* deadline); the dispatcher throws nothing and goes on answering: every
\* request all its receivers have worked off, the answers delivered, is
\* settled.
C7_HandlerFailure ==
  /\ last.op \in {"onRequest", "respond"} => last.err = ""
  /\ \A k \in 1..Len(invokes) :
       /\ \A h \in invokes[k].served :
            (h.pos = 1 /\ Fails(h.fn) /\ ~Running(h, invokes[k].reqId)) =>
               /\ invokes[k].state # "Resolved"
               /\ invokes[k].state = "Rejected" =>
                    invokes[k].value \in
                      {HandlerFailure(h.fn, invokes[k].arg),
                       ResponseTimeout(invokes[k].reqId)}
       /\ (/\ Received(invokes[k])
           /\ Answers(invokes[k]) = {}
           /\ ~\E t \in tasks : t.resId = invokes[k].reqId) =>
              invokes[k].state # "Sent"

\* the registries of the hub after the step
RegNext(e) == [eventList |-> eventList'[e], events |-> events'[e],
               handlerList |-> handlerList'[e], handlerEvent |-> handlerEvent'[e]]

\* a string without its separators
Bare(str) == SelectSeq(str, LAMBDA c : c # Sep)

\* parts put together with one separator between two of them
RECURSIVE JoinParts(_)
JoinParts(ps) ==
  IF ps = <<>> THEN <<>>
  ELSE IF Len(ps) = 1 THEN ps[1]
  ELSE ps[1] \o <<Sep>> \o JoinParts(Tail(ps))

\* the effective prefix of a view: its prefix under that of its parent
EffectivePrefix(view) == JoinParts(view)

\* effectivePrefix + separator + path
PrefixedPath(view, path) == EffectivePrefix(view) \o <<Sep>> \o path

\* the non-empty parts of the prefixes and of the path, each without leading
\* and trailing separators, with exactly one separator between two parts
FullName(view, path) ==
  JoinParts(SelectSeq(Append(view, Strip(path)), LAMBDA part : part # <<>>))

\* the registries of the hub as the root operation named in l, called with
\* the path name, leaves them
RootEffect(l, name) ==
  LET R == Reg(Hub)
  IN CASE l.op = "on" -> {Core_on(R, name, Plain(fn)) : fn \in Listeners}
       [] l.op = "once" -> {Core_once(R, name, fn) : fn \in Listeners}
       [] l.op = "removeListener" -> {Core_removeListener(R, name, fn) : fn \in Listeners}
       [] l.op = "removeAllListeners" -> {Core_removeAllListeners(R, name)}
       [] l.op \in {"handle", "handleOnce"} ->
            IF Core_handleThrows(R, name) THEN {R}
            ELSE {Core_handle(R, name, fn, l.op = "handleOnce") : fn \in ViewFns}
       [] l.op = "removeHandler" -> {Core_removeHandler(R, name)}
       [] OTHER -> {R}

\* what the root operation named in l throws when called with the path name
RootThrows(l, name) ==
  IF l.op \in {"handle", "handleOnce"} /\ Core_handleThrows(Reg(Hub), name)
  THEN "DuplicateHandler" ELSE ""

\* the envelopes the root operation named in l, called with the path name by
\* the spoke, emits
RootEmits(l, name) ==
  CASE l.op = "send" ->
         {Transport("r1", Envelope(name, nextId, FALSE, 0, NoVal, Arg(x))) : x \in Args}
    [] l.op = "invoke" ->
         {Transport("r1", Envelope(name, nextId, TRUE, 0, NoVal, Arg(x))) : x \in Args}
    [] l.op = "respond" ->
         {Transport(Hub, Respond(invokes[k].reqId, name, Result("f", x), nextId))
            : k \in 1..Len(invokes), x \in Args}
    [] OTHER -> {{}}

\* the step is the root operation named in l called with the path name
SameAsRoot(l, name) ==
  /\ RegNext(Hub) \in RootEffect(l, name)
  /\ l.err = RootThrows(l, name)
  /\ (net' \ net) \in RootEmits(l, name)
  /\ l.op = "invoke" => invokes'[Len(invokes')].path = name

ViewOps == {"on", "once", "removeListener", "removeAllListeners", "handle",
            "handleOnce", "removeHandler", "send", "invoke", "respond"}

\* C8: the prefix strings lose their leading and trailing separators when a
\* view is made; a registration (on, once, handle, handleOnce) through the
\* nested view d.prefix(p1).prefix(p2) at path q puts the name p1/p2/q on the
\* root (the non-empty parts, one separator between two of them), new names
\* at the end of eventNames() / handlerNames(), and the views list it as
\* p2/q and as q.
C8_NestedNames ==
  /\ [](\A c \in Chains : MakeView(c) = [i \in 1..Len(c) |-> Bare(c[i])])
  /\ [][LET l == last'
            v == l.view
            q == Bare(l.path)
            full == FullName(v, q)
            rest == FullName(Tail(v), q)
            listens == l.op \in {"on", "once"}
            before == IF listens THEN Core_eventNames(Reg(Hub))
                      ELSE Core_handlerNames(Reg(Hub))
            root == IF listens THEN Core_eventNames(RegNext(Hub))
                    ELSE Core_handlerNames(RegNext(Hub))
            outer == IF listens THEN Ipc_eventNames(RegNext(Hub), <<v[1]>>)
                     ELSE Ipc_handlerNames(RegNext(Hub), <<v[1]>>)
            inner == IF listens THEN Ipc_eventNames(RegNext(Hub), v)
                     ELSE Ipc_handlerNames(RegNext(Hub), v)
        IN (/\ l.op \in {"on", "once", "handle", "handleOnce"}
            /\ l.err = ""
            /\ Len(v) = 2
            /\ q # <<>>) =>
              /\ full \in Range(root)
              /\ rest \in Range(outer)
              /\ q \in Range(inner)
              /\ full \notin Range(before) =>
                   /\ root = Append(before, full)
                   /\ Last(outer) = rest
                   /\ Last(inner) = q
       ]_vars

\* C8, witness: after d.prefix("B").prefix("E").handle("F") the root lists
\* B/E/F, the middle view E/F and the inner view F
C8_Witness ==
  /\ IsHandle(last)
  /\ last.view = <<<<"B">>, <<"E">>>>
  /\ Core_handlerNames(Reg(Hub)) = <<<<"B", "/", "E", "/", "F">>>>
  /\ Ipc_handlerNames(Reg(Hub), <<<<"B">>>>) = <<<<"E", "/", "F">>>>
  /\ Ipc_handlerNames(Reg(Hub), <<<<"B">>, <<"E">>>>) = <<<<"F">>>>

\* C9 as stated: every operation on a view is the root operation with the
\* path effectivePrefix + separator + path.
C9_PrefixedPath ==
  [][(last'.op \in ViewOps /\ last'.view # Root
        /\ (last'.op \in {"removeAllListeners", "removeHandler"} => last'.path # <<>>))
       => SameAsRoot(last', PrefixedPath(last'.view, last'.path))]_vars

\* C9, amended: every operation on a view with a path that is more than
\* separators is the root operation with the path made of the non-empty
\* prefixes of the view and the path, each without leading and trailing
\* separators, with exactly one separator between two of them: the same
\* registries, the same envelope, the same error.
C9_FullName ==
  [][(last'.op \in ViewOps /\ last'.view # Root /\ Strip(last'.path) # <<>>)
       => SameAsRoot(last', FullName(last'.view, last'.path))]_vars

\* C9, witness: an invoke made through the nested view with the path /F was
\* resolved by the handler the hub holds under B/E/F
C9_Witness ==
  \E k \in 1..Len(invokes) :
    /\ invokes[k].path = <<"B", "/", "E", "/", "F">>
    /\ invokes[k].state = "Resolved"
    /\ \E h \in invokes[k].served : h.name = invokes[k].path

\* the name lies under the prefix
Under(name, prefix) == prefix = <<>> \/ StartsWith(name, prefix \o <<Sep>>)

\* the entries of a registry whose names are not under the prefix
Outside(m, prefix) == SelectSeq(m, LAMBDA r : ~Under(r.name, prefix))

\* C10: removeAll() of a view, whether it returns or throws, leaves every
\* registration of the root whose name is not under the prefix of the view
\* as it was: listeners, handlers, eventNames() and handlerNames().
C10_RemoveAllFrame ==
  [][(last'.op = "removeAll" /\ last'.view # Root) =>
       LET pre == FullName(last'.view, <<>>)
           out(names) == SelectSeq(names, LAMBDA n : ~Under(n, pre))
       IN /\ Outside(eventList'[Hub], pre) = Outside(eventList[Hub], pre)
          /\ Outside(events'[Hub], pre) = Outside(events[Hub], pre)
          /\ Outside(handlerList'[Hub], pre) = Outside(handlerList[Hub], pre)
          /\ Outside(handlerEvent'[Hub], pre) = Outside(handlerEvent[Hub], pre)
          /\ out(Core_eventNames(RegNext(Hub))) = out(Core_eventNames(Reg(Hub)))
          /\ out(Core_handlerNames(RegNext(Hub))) = out(Core_handlerNames(Reg(Hub)))
    ]_vars

\* C10, witness: removeAll() of the nested view has removed what the root
\* held under B/E and returned; the root still holds the listener or the
\* handler it held outside B/E, and nothing under it
C10_Witness ==
  /\ last.op = "removeAll"
  /\ last.err = ""
  /\ last.view = <<<<"B">>, <<"E">>>>
  /\ Outside(events[Hub], <<"B", "/", "E">>) = events[Hub]
  /\ Outside(handlerEvent[Hub], <<"B", "/", "E">>) = handlerEvent[Hub]
  /\ events[Hub] # <<>> \/ handlerEvent[Hub] # <<>>

\* the views nested under the view (the view itself among them)
NestedUnder(view) ==
  {w \in Views : Len(w) >= Len(view) /\ SubSeq(w, 1, Len(view)) = view}

\* C11: when removeAll() of a prefixed view has returned, the view and every
\* view nested under it list no event name and no handler name, whatever the
\* root held before the call.
C11_RemoveAllEmpties ==
  [][(last'.op = "removeAll" /\ last'.view # Root /\ last'.err = "") =>
       \A w \in NestedUnder(last'.view) :
         /\ Ipc_eventNames(RegNext(Hub), w) = <<>>
         /\ Ipc_handlerNames(RegNext(Hub), w) = <<>>
    ]_vars

\* the listeners on() has put under the pattern P at e, in the order of the
\* calls
PlainOf(ls) ==
  LET on == SelectSeq(ls, LAMBDA l : ~l.once)
  IN [i \in 1..Len(on) |-> on[i].fn]

OnListeners(e, P) ==
  IF Has(eventList[e], P) THEN PlainOf(Get(eventList[e], P).listeners) ELSE <<>>

OnListenersNext(e, P) ==
  IF Has(eventList'[e], P) THEN PlainOf(Get(eventList'[e], P).listeners) ELSE <<>>

\* the pattern P holds the listeners ls at e, each registered with on(), and
\* nothing else
Listening(R, P, ls) ==
  IF ls = <<>> THEN ~Has(R.eventList, P) /\ ~Has(R.events, P)
  ELSE /\ Has(R.eventList, P)
       /\ Get(R.eventList, P).listeners = [i \in 1..Len(ls) |-> Plain(ls[i])]
       /\ Has(R.events, P)
       /\ Get(R.events, P).listeners = [i \in 1..Len(ls) |-> Plain(ls[i])]

\* the listeners a delivery invoked under the pattern P, in the order of
\* their invocation
HeardOn(heard, P) ==
  LET calls == SelectSeq(heard, LAMBDA c : c.name = P)
  IN [i \in 1..Len(calls) |-> calls[i].fn]

\* the sequence without the element x
Without(ls, x) == SelectSeq(ls, LAMBDA l : l # x)

\* C12: on() puts a listener after those its pattern holds; an envelope whose
\* path matches a pattern invokes all the listeners of the pattern, in the
\* order of their registration (two listeners: both, the first first); and
\* removeListener of one of them leaves the others in their order, so that a
\* further matching envelope invokes only these (of two listeners, after the
\* removal of the first, only the second).
C12_ListenersInOrder ==
  [][\A P \in RoutePatterns :
       LET ls == OnListeners(Hub, P)
           distinct == \A i, j \in 1..Len(ls) : ls[i] = ls[j] => i = j
       IN (Listening(Reg(Hub), P, ls) /\ distinct) =>
            /\ (last'.op = "on" /\ last'.path = P) =>
                  Listening(RegNext(Hub), P, Append(ls, last'.fn))
            /\ (last'.op = "removeListener" /\ last'.path = P) =>
                  Listening(RegNext(Hub), P, Without(ls, last'.fn))
            /\ last'.op = "onRequest" =>
                  \A m \in net \ net' :
                    (m.to = Hub /\ RegexpTest(P, m.path)) =>
                       HeardOn(last'.heard, P) = ls
    ]_vars

\* C12, witness: a pattern held two listeners, an envelope was sent and
\* delivered, and removeListener has just taken the listener l1 away from
\* the pattern, which is left with l2
C12_Witness ==
  \E P \in RoutePatterns :
    /\ last.op = "removeListener"
    /\ last.path = P
    /\ last.fn = "l1"
    /\ nextId = 2
    /\ net = {}
    /\ Listening(Reg(Hub), P, <<"l2">>)

\* the parameter names id1 and id2 and the values x and 7
Id1 == <<"i", "d", "1">>

Id2 == <<"i", "d", "2">>

\* what the patterns of the tests extract from the paths they match: a
\* mapping is the set of its <<name, value>> pairs
Extracted ==
  {[pattern |-> <<"a", "/", ":", "i", "d", "1", "/", ":", "i", "d", "2">>,
    path |-> <<"a", "/", "x", "/", "7">>,
    params |-> {<<Id1, <<"x">>>>, <<Id2, <<"7">>>>}],
   [pattern |-> <<"a", "/", ":", "i", "d", "1", "/", ":", "i", "d", "2", "?">>,
    path |-> <<"a", "/", "x", "/", "7">>,
    params |-> {<<Id1, <<"x">>>>, <<Id2, <<"7">>>>}],
   [pattern |-> <<"a", "/", ":", "i", "d", "1", "/", ":", "i", "d", "2", "?">>,
    path |-> <<"a", "/", "x">>,
    params |-> {<<Id1, <<"x">>>>}],
   [pattern |-> <<"a", "/", "x">>,
    path |-> <<"a", "/", "x">>,
    params |-> {}],
   [pattern |-> <<"1">>,
    path |-> <<"1">>,
    params |-> {}]}

\* the pattern matches the path and extracts the mapping
Extracts(pattern, path, params) ==
  [pattern |-> pattern, path |-> path, params |-> params] \in Extracted

\* the pattern matches the path
Matches(pattern, path) == \E r \in Extracted : r.pattern = pattern /\ r.path = path

\* C13: every listener and every handler invoked for an envelope is one of a
\* pattern that matches its path, and is given the parameters its own
\* pattern extracts from the path: a/:id1/:id2 gives {id1: x, id2: 7} for
\* a/x/7, a/:id1/:id2? gives {id1: x} without id2 for a/x, a/x gives {};
\* and every pattern that matches and holds a listener or a handler has it
\* invoked.
C13_Params ==
  /\ [][last'.op = "onRequest" =>
          \A m \in net \ net' :
            /\ \A i \in 1..Len(last'.heard) :
                 Extracts(last'.heard[i].name, m.path, last'.heard[i].params)
            /\ \A P \in RoutePatterns :
                 (Matches(P, m.path) /\ OnListeners(m.to, P) # <<>>) =>
                    \E i \in 1..Len(last'.heard) : last'.heard[i].name = P
            /\ \A P \in RoutePatterns :
                 (m.handler /\ Matches(P, m.path) /\ Has(handlerList[m.to], P)) =>
                    \E k \in 1..Len(invokes') :
                      /\ invokes'[k].reqId = m.reqId
                      /\ \E h \in invokes'[k].served : h.name = P
       ]_vars
  /\ [](\A k \in 1..Len(invokes) :
          \A h \in invokes[k].served : Extracts(h.name, invokes[k].path, h.params))

\* C13, witness: the request a/x has invoked a listener and a handler of
\* a/:id1/:id2?, each given id1 = x and no id2
C13_Witness ==
  LET P == <<"a", "/", ":", "i", "d", "1", "/", ":", "i", "d", "2", "?">>
  IN /\ last.op = "onRequest"
     /\ \E i \in 1..Len(last.heard) :
          last.heard[i].name = P /\ last.heard[i].params = {<<Id1, <<"x">>>>}
     /\ \E k \in 1..Len(invokes) :
          \E h \in invokes[k].served :
            h.name = P /\ h.params = {<<Id1, <<"x">>>>}

\* the sequence holds no element twice
NoRepeat(names) == \A i, j \in 1..Len(names) : names[i] = names[j] => i = j

\* the names of a sequence that are still in the set, in their order
Kept(names, S) == SelectSeq(names, LAMBDA n : n \in S)

\* names2 is names with the new name P at its end, or names when P is in it
Registered(names, names2, P) ==
  names2 = IF P \in Range(names) THEN names ELSE Append(names, P)

\* C14: eventNames() and handlerNames() list the patterns that hold a
\* registration, each once; a registration of a pattern that is not listed
\* puts it at the end of the list, any other registration leaves the list as
\* it is; and whatever else happens (a removal, the dispatch of an envelope)
\* the list loses the patterns without registration and keeps the others in
\* their order.
C14_NamesInOrder ==
  /\ [](LET en == Core_eventNames(Reg(Hub))
            hn == Core_handlerNames(Reg(Hub))
        IN /\ NoRepeat(en)
           /\ NoRepeat(hn)
           /\ Range(en) = {events[Hub][i].name : i \in 1..Len(events[Hub])}
           /\ Range(hn) = {handlerList[Hub][i].name : i \in 1..Len(handlerList[Hub])})
  /\ [][LET en == Core_eventNames(Reg(Hub))
            hn == Core_handlerNames(Reg(Hub))
            en2 == Core_eventNames(RegNext(Hub))
            hn2 == Core_handlerNames(RegNext(Hub))
        IN /\ IF last'.op \in {"on", "once"}
              THEN Registered(en, en2, last'.path)
              ELSE en2 = Kept(en, Range(en2))
           /\ IF IsHandle(last') /\ last'.err = ""
              THEN Registered(hn, hn2, last'.path)
              ELSE hn2 = Kept(hn, Range(hn2))
       ]_vars

\* the handlers that served invoke v at the dispatcher e
ServedAt(v, e) == {h \in v.served : h.at = e}

\* C15: a handler registered with handleOnce is out of the registry from the
\* moment it is invoked, its result pending or not, and is invoked for one
\* request only; every other request that arrives at its dispatcher and
\* matches no handler there is answered once, with NoHandlerFound naming its
\* path, and is rejected with it when the answer arrives.
C15_OnceInvokedOnce ==
  \A k \in 1..Len(invokes) :
    \A h \in invokes[k].served :
      h.once =>
        /\ ~Has(handlerList[h.at], h.name)
        /\ ~Has(handlerEvent[h.at], h.name)
        /\ \A k2 \in 1..Len(invokes) :
             k2 # k =>
               LET v == invokes[k2]
               IN /\ ~\E h2 \in ServedAt(v, h.at) : h2.name = h.name
                  /\ (h.at \in v.got /\ ServedAt(v, h.at) = {}) =>
                       /\ v.nresp[h.at] = 1
                       /\ \A m \in Answers(v) : m.error = NoHandlerFound(v.path)
                       /\ v.state # "Resolved"
                       /\ Answers(v) = {} =>
                            /\ v.state = "Rejected"
                            /\ v.value = NoHandlerFound(v.path)

\* C15, witness: the handler registered with handleOnce is at work for the
\* first request, its result not there yet, and the second request for the
\* same path is already rejected with NoHandlerFound
C15_Witness ==
  \E k, k2 \in 1..Len(invokes) :
    /\ k # k2
    /\ invokes[k2].path = invokes[k].path
    /\ \E h \in invokes[k].served : h.once /\ Running(h, invokes[k].reqId)
    /\ invokes[k].state = "Sent"
    /\ invokes[k2].state = "Rejected"
    /\ invokes[k2].value = NoHandlerFound(invokes[k2].path)

\* the step delivers the response m to the caller of invoke v
Answered(v, m) ==
  /\ last'.op = "onRequest"
  /\ m \in net \ net'
  /\ m.to = v.by
  /\ m.resId = v.reqId

\* C16: a pending invoke that receives a response without error for its
\* request id resolves in that step with the payload of the response,
\* however many error responses it has received before; and an invoke
\* resolves in no other way.
C16_ResolvesOnFirstValue ==
  [][\A k \in 1..Len(invokes) :
       LET v == invokes[k]
           v2 == invokes'[k]
       IN v.state = "Sent" =>
            /\ \A m \in net :
                 (Answered(v, m) /\ ~IsError(m.error)) =>
                    /\ v2.state = "Resolved"
                    /\ v2.value = m.args
            /\ v2.state = "Resolved" =>
                 \E m \in net :
                   /\ Answered(v, m)
                   /\ ~IsError(m.error)
                   /\ v2.value = m.args
    ]_vars

\* C16, witness: an invoke of the hub, fanned out to two windows of which one
\* holds a handler, is resolved with the handler's value after the error
\* response of the other window was received
C16_Witness ==
  \E k \in 1..Len(invokes) :
    /\ invokes[k].by = Hub
    /\ invokes[k].maxTry = 2
    /\ invokes[k].nbTry = 1
    /\ invokes[k].got = {"r1", "r2"}
    /\ Cardinality(invokes[k].served) = 1
    /\ invokes[k].state = "Resolved"
    /\ invokes[k].value.tag = "value"

\* the retry budget of an invoke made by e: one for a spoke, the number of
\* windows the request is sent to for the hub
Budget(e) == IF e = Hub THEN Cardinality(windows) ELSE 1

\* the invoke is rejected with the error of a response
RejectedByResponse(v) == v.state = "Rejected" /\ v.value.tag # "ResponseTimeout"

\* C17: the budget of an invoke is 1 for a spoke and the number of windows
\* for the hub; an error response for a pending invoke leaves it pending
\* while the error responses received are fewer than the budget, and the
\* error response that makes them as many as the budget rejects it, with the
\* error that response carries; an invoke is rejected with a response error
\* in no other way.
C17_RejectsAtBudget ==
  /\ [](\A k \in 1..Len(invokes) :
          LET v == invokes[k]
          IN /\ v.maxTry = Budget(v.by)
             /\ RejectedByResponse(v) => v.errs >= v.maxTry
             /\ v.state = "Sent" => (v.errs < v.maxTry \/ v.errs = 0))
  /\ [][\A k \in 1..Len(invokes) :
          LET v == invokes[k]
              v2 == invokes'[k]
          IN v.state = "Sent" =>
               /\ \A m \in net :
                    (Answered(v, m) /\ IsError(m.error)) =>
                       IF v.errs + 1 < v.maxTry
                       THEN v2.state = "Sent"
                       ELSE /\ v2.state = "Rejected"
                            /\ v2.value = m.error
               /\ RejectedByResponse(v2) =>
                    \E m \in net :
                      /\ Answered(v, m)
                      /\ IsError(m.error)
                      /\ v2.value = m.error
                      /\ v2.errs = v.maxTry
       ]_vars

\* C17, witness: an invoke of the hub, fanned out to two windows, stayed
\* pending after the first error response and is rejected with the second
C17_Witness ==
  \E k \in 1..Len(invokes) :
    /\ invokes[k].by = Hub
    /\ invokes[k].maxTry = 2
    /\ invokes[k].errs = 2
    /\ invokes[k].got = {"r1", "r2"}
    /\ RejectedByResponse(invokes[k])

\* the promise of an invoke and the budget its response listener counts down
Promise(v) == [state |-> v.state, value |-> v.value, nbTry |-> v.nbTry]

\* C18: an invoke is pending without a value, resolved with a value, or
\* rejected with NoHandlerFound, a handler's failure or the timeout naming
\* its request id; a settled invoke never changes again (its outcome, and
\* the count of its response listener, which is gone): no response and no
\* timer touches it; the timer settles pending invokes only, at the
\* deadline; and the delivery of a response whose id is that of a settled
\* invoke changes no invoke.
C18_FinalOutcome ==
  /\ [](\A k \in 1..Len(invokes) :
          LET v == invokes[k]
          IN /\ v.state \in {"Sent", "Resolved", "Rejected"}
             /\ v.state = "Sent" => v.value = NoVal
             /\ v.state = "Resolved" => v.value.tag = "value"
             /\ v.state = "Rejected" =>
                  \/ v.value = NoHandlerFound(v.path)
                  \/ v.value.tag = "HandlerFailure"
                  \/ v.value = ResponseTimeout(v.reqId))
  /\ [][\A k \in 1..Len(invokes) :
          LET v == invokes[k]
              v2 == invokes'[k]
          IN /\ Len(invokes') >= Len(invokes)
             /\ v.state # "Sent" => Promise(v2) = Promise(v)
             /\ (last'.op = "timeout" /\ Promise(v2) # Promise(v)) =>
                  /\ v.state = "Sent"
                  /\ Elapsed(k) >= TimeoutMs
                  /\ v2.value = ResponseTimeout(v.reqId)
             /\ \A m \in net :
                  (Answered(v, m) /\ v.state # "Sent") =>
                     \A j \in 1..Len(invokes) : Promise(invokes'[j]) = Promise(invokes[j])
       ]_vars

\* C18, witness: a spoke's invoke timed out, the handler's result was sent
\* afterwards and has arrived, and the invoke is still rejected with the
\* timeout
C18_Witness ==
  \E k \in 1..Len(invokes) :
    /\ invokes[k].by \in Spokes
    /\ invokes[k].state = "Rejected"
    /\ invokes[k].value = ResponseTimeout(invokes[k].reqId)
    /\ invokes[k].nresp[Hub] >= 1
    /\ Answers(invokes[k]) = {}
    /\ last.op = "onRequest"

\* C19: with timers that run, every invoke made is settled in the end
\* (resolved or rejected), whether or not its request is delivered, answered
\* by every peer, or answered at all.
C19_EventuallySettles ==
  \A k \in 1..MaxInvokes :
    (Len(invokes) >= k) ~> (Len(invokes) >= k /\ invokes[k].state # "Sent")

\* C19, witness: an invoke is rejected by its deadline while the handler
\* invoked for it has still not produced its result
C19_Witness ==
  \E k \in 1..Len(invokes) :
    /\ invokes[k].state = "Rejected"
    /\ invokes[k].value = ResponseTimeout(invokes[k].reqId)
    /\ \E h \in invokes[k].served : Running(h, invokes[k].reqId)

\* C20: the request ids of the invokes differ from each other, and no other
\* envelope carries the id of an invoke's request; the delivery of an
\* envelope changes an invoke only if the invoke is pending, was made at the
\* endpoint the envelope arrives at, and has the request id the envelope
\* names as its resId: a response broadcast by the hub changes nothing at
\* the windows that did not ask.
C20_IndependentInvokes ==
  /\ [](/\ \A j, k \in 1..Len(invokes) :
             invokes[j].reqId = invokes[k].reqId => j = k
        /\ \A m \in net :
             \A k \in 1..Len(invokes) :
               m.reqId = invokes[k].reqId =>
                  /\ m.handler
                  /\ m.resId = 0
                  /\ m.from = invokes[k].by)
  /\ [][\A k \in 1..Len(invokes) :
          LET v == invokes[k]
              v2 == invokes'[k]
          IN Promise(v2) # Promise(v) =>
               /\ v.state = "Sent"
               /\ \E m \in net :
                    /\ Answered(v, m)
                    /\ \A j \in 1..Len(invokes) :
                         j # k => Promise(invokes'[j]) = Promise(invokes[j])
       ]_vars

\* C20, witness: two spokes have invoked; the later invoke is resolved, its
\* response delivered to both windows, while the handler of the earlier
\* invoke is still at work and the earlier invoke pending
C20_Witness ==
  \E j, k \in 1..Len(invokes) :
    /\ k < j
    /\ invokes[k].by # invokes[j].by
    /\ invokes[j].state = "Resolved"
    /\ ~\E m \in net : m.resId = invokes[j].reqId
    /\ invokes[k].state = "Sent"
    /\ \E h \in invokes[k].served : Running(h, invokes[k].reqId)


\* the registrations of listeners the dispatcher R holds under the patterns
\* that match the path, as pairs of pattern and listener
MatchingListeners(R, path) ==
  UNION {{<<R.events[i].name, R.events[i].listeners[j].fn>> :
            j \in 1..Len(R.events[i].listeners)} :
         i \in {n \in 1..Len(R.events) : RegexpTest(R.events[n].name, path)}}

\* the listeners a delivery invoked, as pairs of pattern and listener
Invoked(heard) == {<<heard[i].name, heard[i].fn>> : i \in 1..Len(heard)}

\* C21: the listeners invoked for an inbound envelope are those that matched
\* its path when its dispatch began, whatever the listeners invoked register
\* or remove on other matching patterns meanwhile.
C21_SnapshotDispatch ==
  [][last'.op = "onRequest" =>
       \A m \in net \ net' :
         Invoked(last'.heard) = MatchingListeners(Reg(m.to), m.path)]_vars


\* the listeners the emitter of e holds under the pattern P, in the order of
\* their registration
ListenersOf(e, P) ==
  IF Has(events[e], P)
  THEN [i \in 1..Len(Get(events[e], P).listeners) |-> Get(events[e], P).listeners[i].fn]
  ELSE <<>>

\* C22: an inbound envelope with path p invokes, for every pattern that
\* matches p, every listener registered under it, each registration once,
\* and every listener invoked is one of a matching pattern and is given the
\* args of the envelope as they were sent.
C22_EveryMatchingListener ==
  [][last'.op = "onRequest" =>
       \A m \in net \ net' :
         /\ \A P \in RoutePatterns :
              Matches(P, m.path) => HeardOn(last'.heard, P) = ListenersOf(m.to, P)
         /\ \A i \in 1..Len(last'.heard) :
              /\ Matches(last'.heard[i].name, m.path)
              /\ last'.heard[i].args = m.args
    ]_vars


ListenersOfNext(e, P) ==
  IF Has(events'[e], P)
  THEN [i \in 1..Len(Get(events'[e], P).listeners) |-> Get(events'[e], P).listeners[i].fn]
  ELSE <<>>

\* the sequence without the last of its elements that equals x
WithoutLast(ls, x) ==
  LET hits == {i \in 1..Len(ls) : ls[i] = x}
  IN IF hits = {} THEN ls
     ELSE RemoveAt(ls, CHOOSE i \in hits : \A j \in hits : j <= i)

\* C23: removeListener(pattern, l) takes one registration of l away from the
\* pattern and leaves the others; the pattern's entry goes only with its last
\* listener; and a matching envelope invokes the registrations that are
\* left: l once, when l was registered twice and removed once.
C23_RemovesOne ==
  [][\A P \in RoutePatterns :
       /\ (last'.op = "removeListener" /\ last'.path = P) =>
             /\ ListenersOfNext(Hub, P) = WithoutLast(ListenersOf(Hub, P), last'.fn)
             /\ (Has(eventList[Hub], P) /\ ~Has(eventList'[Hub], P)) =>
                   ListenersOfNext(Hub, P) = <<>>
       /\ last'.op = "onRequest" =>
             \A m \in net \ net' :
               (m.to = Hub /\ Matches(P, m.path)) =>
                  HeardOn(last'.heard, P) = ListenersOf(Hub, P)
    ]_vars


\* the names that lie under the prefix followed by a separator, with the
\* prefix and that separator cut off
UnderNames(names, prefix) ==
  LET under == SelectSeq(names, LAMBDA n : StartsWith(n, prefix \o <<Sep>>))
  IN [i \in 1..Len(under) |-> Slice(under[i], Len(prefix) + 1)]

\* C24: eventNames() and handlerNames() of a prefixed view list exactly the
\* names of the root that lie under the effective prefix of the view followed
\* by a separator, without the prefix and that separator; a root name that
\* only begins with the characters of the prefix is not listed.
C24_ViewNames ==
  \A v \in Views \ {Root} :
    /\ Ipc_eventNames(Reg(Hub), v) =
         UnderNames(Core_eventNames(Reg(Hub)), FullName(v, <<>>))
    /\ Ipc_handlerNames(Reg(Hub), v) =
         UnderNames(Core_handlerNames(Reg(Hub)), FullName(v, <<>>))


\* C25: an invoke the hub makes while no window is connected does not
\* resolve, and when it is rejected it is rejected with NoHandlerFound for
\* its path.
C25_ZeroPeers ==
  \A k \in 1..Len(invokes) :
    (invokes[k].by = Hub /\ invokes[k].maxTry = 0) =>
       /\ invokes[k].state # "Resolved"
       /\ invokes[k].state = "Rejected" =>
            invokes[k].value = NoHandlerFound(invokes[k].path)


\* an inbound envelope matching the pattern P would invoke a listener
\* registered under it: the dispatch loop tests P and emits it to a listener
WouldInvoke(e, P) == Has(eventList[e], P) /\ ListenersOf(e, P) # <<>>

\* C26: whatever listeners were registered and removed, eventNames() lists a
\* pattern exactly when a matching envelope would invoke a listener
\* registered under it, and the names it lists are the patterns the dispatch
\* loop tests.
C26_NamesAreDispatched ==
  /\ \A P \in RoutePatterns :
       (P \in Range(Core_eventNames(Reg(Hub)))) <=> WouldInvoke(Hub, P)
  /\ Range(Core_eventNames(Reg(Hub))) = Range(Names(eventList[Hub]))


\* C27: removeAll(), removeAllListeners() and removeHandler() called on a
\* prefixed view without a path return, whatever the root holds.
C27_RemovalsReturn ==
  [][(/\ last'.op \in {"removeAll", "removeAllListeners", "removeHandler"}
      /\ last'.view # Root
      /\ last'.path = <<>>) => last'.err = ""]_vars


\* the pattern matches the path: a/:x matches a/t, a/u and the string a/:x
\* itself, any other pattern the path that equals it
EchoMatches(P, path) ==
  /\ path \in {<<"a", "/", "t">>, <<"a", "/", "u">>, <<"a", "/", ":", "x">>}
  /\ P = path \/ P = <<"a", "/", ":", "x">>

\* the envelope is a response to invoke v, under the path the code gives it:
\* the pattern of the handler that served v, or the request path when no
\* handler was found
ResponseTo(m, v) ==
  /\ m.resId = v.reqId
  /\ IF m.error.tag = "NoHandlerFound"
     THEN m.path = v.path /\ m.error = NoHandlerFound(v.path)
     ELSE \E h \in v.served : h.name = m.path

\* C28: the delivery of a response at the endpoint that invoked also invokes
\* every listener of that endpoint whose pattern matches the path of the
\* response (the pattern of the handler, or the request path for
\* NoHandlerFound), with the payload of the response; it invokes no handler,
\* sends nothing and leaves the handlers as they are; and it settles the
\* pending invoke.
C28_ResponseHeard ==
  [][last'.op = "onRequest" =>
       \A m \in net \ net' :
         m.resId # 0 =>
           /\ \E k \in 1..Len(invokes) : ResponseTo(m, invokes[k])
           /\ \A P \in Range(Names(events[m.to])) :
                EchoMatches(P, m.path) => HeardOn(last'.heard, P) = ListenersOf(m.to, P)
           /\ \A i \in 1..Len(last'.heard) :
                /\ EchoMatches(last'.heard[i].name, m.path)
                /\ last'.heard[i].args = m.args
           /\ net' = net \ {m}
           /\ tasks' = tasks
           /\ nextId' = nextId
           /\ handlerList' = handlerList
           /\ handlerEvent' = handlerEvent
           /\ \A k \in 1..Len(invokes) :
                /\ invokes'[k].served = invokes[k].served
                /\ invokes'[k].nresp = invokes[k].nresp
                /\ (invokes[k].reqId = m.resId /\ invokes[k].by = m.to) =>
                      invokes'[k].state # "Sent"
    ]_vars

\* C28, witness: the response of the hub's handler a/:x has arrived at the
\* spoke under the path a/:x, resolved the invoke and was heard by the
\* spoke's listener on a/:x, while the spoke's own handler on a/:x stayed
\* idle
C28_Witness ==
  /\ last.op = "onRequest"
  /\ \E i \in 1..Len(last.heard) :
       /\ last.heard[i].name = <<"a", "/", ":", "x">>
       /\ last.heard[i].args.tag = "value"
  /\ Has(handlerList["r1"], <<"a", "/", ":", "x">>)
  /\ \E k \in 1..Len(invokes) :
       /\ invokes[k].state = "Resolved"
       /\ invokes[k].by = "r1"
       /\ invokes[k].served = {h \in invokes[k].served : h.at = Hub}
  /\ net = {}
  /\ tasks = {}


\* C29: the budget of an invoke of the hub is the number of windows open when
\* invoke is called; nothing changes it afterwards, and the opening or
\* closing of a window changes no invoke; so an invoke of the hub is not
\* rejected with the error of a response while fewer peers than the budget
\* counts have answered: if one of them never answers it ends with the
\* timeout.
C29_BudgetAtInvoke ==
  /\ [][/\ \A k \in 1..Len(invokes') :
            (k > Len(invokes) /\ invokes'[k].by = Hub) =>
               /\ invokes'[k].maxTry = Cardinality(windows)
               /\ {m.to : m \in net' \ net} = windows
        /\ \A k \in 1..Len(invokes) : invokes'[k].maxTry = invokes[k].maxTry
        /\ windows' # windows => invokes' = invokes
       ]_vars
  /\ [](\A k \in 1..Len(invokes) :
          (invokes[k].by = Hub
             /\ Cardinality(invokes[k].answered) < invokes[k].maxTry) =>
            /\ ~RejectedByResponse(invokes[k])
            /\ invokes[k].state = "Rejected" =>
                 /\ invokes[k].value = ResponseTimeout(invokes[k].reqId)
                 /\ Elapsed(k) >= TimeoutMs)


\* C30: removeAll() on the root empties the dispatcher's tables of listeners
\* and of handlers, those registered through a view included, and changes
\* nothing else: not the pending invokes, not the envelopes under way, not
\* the handlers at work, not the other dispatchers. The response that arrives
\* for an invoke still pending settles it, and a pending invoke is settled in
\* the end, by its response or by its deadline; and an envelope that arrives
\* is given to every listener and every handler then registered under a
\* pattern that matches it.
C30_RemoveAll ==
  /\ [][last'.op = "removeAll" =>
          /\ last'.err = ""
          /\ \E e \in Endpoints :
               /\ RegNext(e) = EmptyReg
               /\ \A o \in Endpoints \ {e} : RegNext(o) = Reg(o)
          /\ UNCHANGED <<windows, invokes, net, tasks, nextId, now>>
      ]_vars
  /\ [][\A k \in 1..Len(invokes) : \A m \in net :
          (invokes[k].state = "Sent" /\ Answered(invokes[k], m)) =>
             /\ invokes'[k].state = IF IsError(m.error) THEN "Rejected" ELSE "Resolved"
             /\ invokes'[k].value = IF IsError(m.error) THEN m.error ELSE m.args
      ]_vars
  /\ [][last'.op = "onRequest" =>
          \A m \in net \ net' :
            /\ \A P \in Range(Names(events[m.to])) :
                 EchoMatches(P, m.path) => HeardOn(last'.heard, P) = ListenersOf(m.to, P)
            /\ m.handler =>
                 \A i \in 1..Len(handlerList[m.to]) :
                   EchoMatches(handlerList[m.to][i].name, m.path) =>
                     \E k \in 1..Len(invokes) : \E h \in invokes'[k].served :
                       /\ invokes[k].reqId = m.reqId
                       /\ h.at = m.to
                       /\ h.name = handlerList[m.to][i].name
      ]_vars
  /\ [](\A k \in 1..MaxPair :
          (Len(invokes) >= k /\ invokes[k].state = "Sent") =>
             <>(Len(invokes) >= k /\ invokes[k].state # "Sent"))

\* C30, witness: a dispatcher that has an invoke pending, the response to it
\* on its way, has just called removeAll() and holds no registration
C30_Witness ==
  /\ last.op = "removeAll"
  /\ \E k \in 1..Len(invokes) :
       /\ invokes[k].state = "Sent"
       /\ Reg(invokes[k].by) = EmptyReg
       /\ \E m \in net : m.to = invokes[k].by /\ m.resId = invokes[k].reqId


\* C31: the response sent for the result of a handler that has returned
\* carries the result as its error, with no payload, when the result is an
\* Error object, and as its payload, with no error, when it is anything
\* else; and the invoke whose request was served by a handler that returned
\* an Error object does not resolve: once the response has arrived it is
\* rejected with that object.
C31_TypeDecides ==
  /\ [][last'.op = "respond" =>
          \A t \in tasks \ tasks' : \A m \in net' \ net :
            /\ m.resId = t.resId
            /\ m.handler = FALSE
            /\ IF t.fn = "errs"
               THEN m.error = ReturnedError(t.fn, t.arg) /\ m.args = NoVal
               ELSE m.error = NoVal /\ m.args = Result(t.fn, t.arg)
      ]_vars
  /\ [](\A k \in 1..Len(invokes) :
          \A h \in invokes[k].served :
            (h.pos = 1 /\ h.fn = "errs" /\ ~Running(h, invokes[k].reqId)) =>
               /\ invokes[k].state # "Resolved"
               /\ invokes[k].state = "Rejected" =>
                    invokes[k].value = ReturnedError(h.fn, invokes[k].arg)
               /\ Answers(invokes[k]) = {} => invokes[k].state = "Rejected")

=============================================================================
